---- MODULE Spec2Model ----
(***************************************************************************)
(* Model of the key-pool log ingestion pipeline of code-deployer:          *)
(*   src/src/local/log_processor/downloader.py  (LogDownloader)            *)
(*   src/src/local/log_processor/parser.py      (LogParser)                *)
(*   src/src/local/log_processor/database.py    (DatabaseManager)          *)
(* The loop that drives the three (poll, download, parse/store, mark) is   *)
(* not part of the sources; it is modelled from section 4.5 of the         *)
(* specification and from the call order of the workflow tests.            *)
(***************************************************************************)
EXTENDS Integers, Sequences, FiniteSets, Bags, TLC

\* ------------------------------------------------------------------ bounds
\* Lines of a file when process_log_file is explored alone.
MaxLines == 3
\* Rows of the metric tables when the parser and the database manager are
\* called directly.
MaxRows == 1
\* Lines of a file that process_log_file is run over twice.
MaxRerunLines == 2
\* Lines of a file when the whole pipeline is explored.
MaxLoopLines == 1
\* Polling cycles of the ingestion loop.
MaxCycles == 2
\* Process restarts.
MaxRestarts == 1
MaxCatalogLines == 3

\* --------------------------------------------------------------- file names
\* A file name is a sequence of characters; the last element stands for the
\* ".log" suffix that the listing's glob requires (http_server.py:64).
\* str.strip() removes leading and trailing whitespace.
IsSpace(c) == c = " "

Names == { <<"a", ".log">>, <<"b", ".log">>, <<" ", "a", ".log">> }

RECURSIVE LStrip(_)
LStrip(s) ==
    IF s = <<>> THEN <<>>
    ELSE IF IsSpace(Head(s)) THEN LStrip(Tail(s)) ELSE s

RECURSIVE RStrip(_)
RStrip(s) ==
    IF s = <<>> THEN <<>>
    ELSE IF IsSpace(s[Len(s)]) THEN RStrip(SubSeq(s, 1, Len(s) - 1)) ELSE s

\* line.strip()
Strip(s) == RStrip(LStrip(s))

Range(s) == { s[i] : i \in 1..Len(s) }

\* LogDownloader._load_processed_files: the set of the stripped, non-empty
\* lines of the durable list (the empty set when the list does not exist).
LoadProcessedFiles(lines) ==
    { Strip(lines[i]) : i \in 1..Len(lines) } \ { <<>> }

\* ------------------------------------------------------ remote catalog API
None == "None"

\* The order of file names in a listing: sorted() of http_server.py:64
\* (" a.log" < "a.log" < "b.log").
Rank(n) ==
    IF n = <<" ", "a", ".log">> THEN 1 ELSE IF n = <<"a", ".log">> THEN 2 ELSE 3

\* The listings GET /logs can return: *.log files of the log directory,
\* each once, sorted by name.
Listings ==
    { l \in UNION { [1..n -> Names] : n \in 0..Cardinality(Names) } :
        \A i, j \in 1..Len(l) : i < j => Rank(l[i]) < Rank(l[j]) }

FileEntry(n) == [filename |-> n]

\* Outcomes of the listing request as get_available_logs sees them:
\*   ok                a 200 response whose body has count and files
\*   transport         requests.get raises a RequestException
\*   status            raise_for_status raises HTTPError (a RequestException)
\*   json_request_exc  response.json() raises requests' JSONDecodeError,
\*                     a RequestException (requests >= 2.27)
\*   json_value_error  response.json() raises a plain ValueError (older
\*                     requests)
\*   no_count          the body is a JSON object without "count"
\*   no_files          the body has "count" but no "files"
ListResponses ==
    { [kind |-> "ok", files |-> [i \in 1..Len(l) |-> FileEntry(l[i])]] : l \in Listings }
    \cup { [kind |-> k, files |-> <<>>] :
             k \in { "transport", "status", "json_request_exc",
                     "json_value_error", "no_count", "no_files" } }

\* The exceptions of the listing request that are RequestExceptions.
IsRequestException(kind) ==
    kind \in { "transport", "status", "json_request_exc" }

\* LogDownloader.get_available_logs: the files of the body; [] on a
\* RequestException; any other exception leaves the method.
GetAvailableLogs(resp) ==
    IF resp.kind = "ok" THEN [exc |-> "none", value |-> resp.files]
    ELSE IF IsRequestException(resp.kind) THEN [exc |-> "none", value |-> <<>>]
    ELSE IF resp.kind = "json_value_error" THEN [exc |-> "ValueError", value |-> <<>>]
    ELSE [exc |-> "KeyError", value |-> <<>>]

\* get_new_logs without its filter.
NewLogsUnfiltered(available_logs, processed) == available_logs

\* The filter of get_new_logs (downloader.py:104-107).
NewLogs(available_logs, processed) ==
    SelectSeq(available_logs, LAMBDA log : log.filename \notin processed)

\* LogDownloader.get_new_logs.
GetNewLogs(resp, processed) ==
    LET got == GetAvailableLogs(resp) IN
    IF got.exc # "none" THEN got
    ELSE IF got.value = <<>> THEN [exc |-> "none", value |-> <<>>]
    ELSE [exc |-> "none", value |-> NewLogs(got.value, processed)]

\* Outcomes of GET /logs/{filename} and of writing the local copy:
\*   ok         the body was received and written
\*   transport  requests.get raises a RequestException
\*   status     raise_for_status raises HTTPError
\*   oserror    os.makedirs, open or write raises OSError
DownloadResponses == { "ok", "transport", "status", "oserror" }

\* LogDownloader.download_log_file: (filepath, size), or (None, 0) on a
\* RequestException; an OSError leaves the method.
DownloadLogFile(filename, resp) ==
    IF resp = "ok" THEN [exc |-> "none", filepath |-> filename]
    ELSE IF IsRequestException(resp) THEN [exc |-> "none", filepath |-> None]
    ELSE [exc |-> "OSError", filepath |-> None]

\* A mark_as_processed that starts the list and the set over.
MarkAsProcessedReplacing(filename, lines, processed, appendOk) ==
    IF appendOk
    THEN [exc |-> "none", lines |-> << filename >>, processed |-> { filename }]
    ELSE [exc |-> "OSError", lines |-> lines, processed |-> processed]

\* LogDownloader.mark_as_processed: the durable list and the in-memory set
\* after the call; when the append raises OSError neither has changed.
MarkAsProcessed(filename, lines, processed, appendOk) ==
    IF appendOk
    THEN [exc |-> "none", lines |-> Append(lines, filename),
          processed |-> processed \cup { filename }]
    ELSE [exc |-> "OSError", lines |-> lines, processed |-> processed]

\* ------------------------------------------------------------ log lines
\* A stripped physical line, by what parse_log_entry reads of it:
\*   blank   the stripped line is empty
\*   ntok5   line.split() yields at least 5 tokens
\*   ts      the first token: "plus" a date-time with fractional seconds and
\*           a +hhmm suffix, "minus" the same with a -hhmm suffix, "bad"
\*           anything else
\*   marks   the marker substrings the line contains
\*   fields  the fields whose regular expression matches in the line
\*   intok   int() accepts the digits every matching numeric field holds
\*           (an interpreter with a digit limit raises ValueError on a
\*           number of more digits)
\*   vals    the text each field's regular expression captures, and the
\*           instant the timestamp token denotes
KeyCreationFields ==
    { "key_identity", "sequence_number", "source_site", "dest_site", "key_type" }
SyncLatencyFields == { "latency_ms" }
KeyCountFields == { "bits", "keys_count" }
ControllerSyncFields == { "local_site", "remote_site" }

NumericFields ==
    { "sequence_number", "source_site", "dest_site", "latency_ms", "bits",
      "keys_count", "local_site", "remote_site" }

DefaultValues ==
    [key_identity |-> "k1", sequence_number |-> 1, source_site |-> 101,
     dest_site |-> 102, key_type |-> "PUBLIC", latency_ms |-> 120, bits |-> 256,
     keys_count |-> 10, local_site |-> 101, remote_site |-> 103, at |-> 1]

MkLine(blank, ntok5, ts, marks, fields) ==
    [blank |-> blank, ntok5 |-> ntok5, ts |-> ts, marks |-> marks, fields |-> fields,
     intok |-> TRUE, vals |-> DefaultValues]

\* The line with other captured values.
WithValues(line, vals) == [line EXCEPT !.vals = vals]

\* The line with a number too long for int().
Overlong(line) == [line EXCEPT !.intok = FALSE]

BlankLine == MkLine(TRUE, FALSE, "bad", {}, {})
ShortLine == MkLine(FALSE, FALSE, "bad", {}, {})
UnknownLine == MkLine(FALSE, TRUE, "plus", {}, {})
KeyCreationLine(ts, fields) ==
    MkLine(FALSE, TRUE, ts, { "createKey", "sequence number" }, fields)
SyncLatencyLine(ts, fields) ==
    MkLine(FALSE, TRUE, ts, { "METRIC_KEY_SYNC_LATENCY" }, fields)
KeyCountLine(ts, fields) ==
    MkLine(FALSE, TRUE, ts, { "METRIC_RECEIVED_PUBLIC_KEY_COUNT" }, fields)
ControllerSyncLine(ts, fields) ==
    MkLine(FALSE, TRUE, ts, { "KeyPoolController", "remote site" }, fields)

\* The lines a downloaded file is made of.
Lines ==
    { BlankLine, ShortLine, UnknownLine,
      KeyCreationLine("plus", KeyCreationFields),
      KeyCreationLine("plus", KeyCreationFields \ { "key_identity" }),
      SyncLatencyLine("plus", SyncLatencyFields),
      SyncLatencyLine("minus", SyncLatencyFields),
      SyncLatencyLine("bad", SyncLatencyFields),
      KeyCountLine("plus", KeyCountFields),
      ControllerSyncLine("plus", ControllerSyncFields) }

AllFields ==
    KeyCreationFields \cup SyncLatencyFields \cup KeyCountFields
        \cup ControllerSyncFields

\* The marker substrings of a record family (parser.py:43, 80, 87, 99).
MarkersOf(log_type) ==
    IF log_type = "KEY_CREATION" THEN { "createKey", "sequence number" }
    ELSE IF log_type = "SYNC_LATENCY" THEN { "METRIC_KEY_SYNC_LATENCY" }
    ELSE IF log_type = "KEY_COUNT" THEN { "METRIC_RECEIVED_PUBLIC_KEY_COUNT" }
    ELSE { "KeyPoolController", "remote site" }

\* The lines parse_log_entry is called with directly: for every set of
\* families a line with the markers of all of them and the text of every
\* field; lines with half of a two-part marker; short, blank and incomplete
\* lines; lines with a number too long for int().
ParseInputs ==
    { MkLine(FALSE, TRUE, "plus", UNION { MarkersOf(t) : t \in fams }, AllFields) :
        fams \in SUBSET { "KEY_CREATION", "SYNC_LATENCY", "KEY_COUNT", "CONTROLLER_SYNC" } }
    \cup { MkLine(FALSE, TRUE, "plus", { "createKey" }, AllFields),
           MkLine(FALSE, TRUE, "plus", { "createKey", "KeyPoolController", "remote site" },
                  AllFields),
           BlankLine, ShortLine,
           KeyCreationLine("plus", KeyCreationFields \ { "key_identity" }),
           Overlong(SyncLatencyLine("plus", SyncLatencyFields)),
           Overlong(KeyCreationLine("plus", { "key_identity", "key_type" })) }

\* The lines of the files of the whole-pipeline exploration: one that is
\* stored and one whose timestamp strptime rejects.
LoopLines ==
    { SyncLatencyLine("plus", SyncLatencyFields),
      SyncLatencyLine("bad", SyncLatencyFields) }

NoEntry == [log_type |-> None, fields |-> {}, timestamp |-> None, values |-> <<>>]

\* The entry of a line of the given family: the family's fields that match,
\* with their values (None stands for a key the entry does not have); no
\* entry when int() raises ValueError on one of them (parser.py:115-117).
Extract(line, log_type, family) ==
    LET found == line.fields \cap family IN
    IF ~line.intok /\ found \cap NumericFields # {} THEN NoEntry
    ELSE [log_type |-> log_type, fields |-> found, timestamp |-> line.ts,
          values |-> [f \in family \cup { "at" } |->
                        IF f \in found \cup { "at" } THEN line.vals[f] ELSE None]]

\* A parse_log_entry without the 5-token minimum.
ParseLogEntryNoMinimum(line) ==
    IF { "createKey", "sequence number" } \subseteq line.marks
    THEN Extract(line, "KEY_CREATION", KeyCreationFields)
    ELSE IF "METRIC_KEY_SYNC_LATENCY" \in line.marks
    THEN Extract(line, "SYNC_LATENCY", SyncLatencyFields)
    ELSE IF "METRIC_RECEIVED_PUBLIC_KEY_COUNT" \in line.marks
    THEN Extract(line, "KEY_COUNT", KeyCountFields)
    ELSE IF { "KeyPoolController", "remote site" } \subseteq line.marks
    THEN Extract(line, "CONTROLLER_SYNC", ControllerSyncFields)
    ELSE Extract(line, "UNKNOWN", {})

\* A parse_log_entry that tries the families in the opposite order.
ParseLogEntryLastMatch(line) ==
    IF ~line.ntok5 THEN NoEntry
    ELSE IF { "KeyPoolController", "remote site" } \subseteq line.marks
    THEN Extract(line, "CONTROLLER_SYNC", ControllerSyncFields)
    ELSE IF "METRIC_RECEIVED_PUBLIC_KEY_COUNT" \in line.marks
    THEN Extract(line, "KEY_COUNT", KeyCountFields)
    ELSE IF "METRIC_KEY_SYNC_LATENCY" \in line.marks
    THEN Extract(line, "SYNC_LATENCY", SyncLatencyFields)
    ELSE IF { "createKey", "sequence number" } \subseteq line.marks
    THEN Extract(line, "KEY_CREATION", KeyCreationFields)
    ELSE Extract(line, "UNKNOWN", {})

\* LogParser.parse_log_entry: None for fewer than 5 tokens; otherwise the
\* first matching family and the fields of that family found in the line.
\* The timestamp token is copied, not parsed.
ParseLogEntry(line) ==
    IF ~line.ntok5 THEN NoEntry
    ELSE IF { "createKey", "sequence number" } \subseteq line.marks
    THEN Extract(line, "KEY_CREATION", KeyCreationFields)
    ELSE IF "METRIC_KEY_SYNC_LATENCY" \in line.marks
    THEN Extract(line, "SYNC_LATENCY", SyncLatencyFields)
    ELSE IF "METRIC_RECEIVED_PUBLIC_KEY_COUNT" \in line.marks
    THEN Extract(line, "KEY_COUNT", KeyCountFields)
    ELSE IF { "KeyPoolController", "remote site" } \subseteq line.marks
    THEN Extract(line, "CONTROLLER_SYNC", ControllerSyncFields)
    ELSE Extract(line, "UNKNOWN", {})

\* The record types _store_entry has an insert for, and the fields it
\* requires of an entry before it calls that insert.
RecognizedTypes == { "KEY_CREATION", "SYNC_LATENCY", "KEY_COUNT", "CONTROLLER_SYNC" }

RequiredFields(log_type) ==
    IF log_type = "KEY_CREATION" THEN KeyCreationFields
    ELSE IF log_type = "SYNC_LATENCY" THEN SyncLatencyFields
    ELSE IF log_type = "KEY_COUNT" THEN KeyCountFields
    ELSE ControllerSyncFields

\* A _store_entry that does not look at the fields of the entry.
StoreCallPartial(entry) ==
    IF entry.log_type = "KEY_CREATION" THEN "insert_key_creation"
    ELSE IF entry.log_type = "SYNC_LATENCY" THEN "insert_sync_latency"
    ELSE IF entry.log_type = "KEY_COUNT" THEN "insert_key_count"
    ELSE IF entry.log_type = "CONTROLLER_SYNC" THEN "insert_controller_sync"
    ELSE "none"

\* A _store_entry that hands key counts to the sync-latency insert.
StoreCallMisrouted(entry) ==
    IF entry.log_type = "KEY_CREATION" /\ KeyCreationFields \subseteq entry.fields
    THEN "insert_key_creation"
    ELSE IF entry.log_type \in { "SYNC_LATENCY", "KEY_COUNT" }
            /\ RequiredFields(entry.log_type) \subseteq entry.fields
    THEN "insert_sync_latency"
    ELSE IF entry.log_type = "CONTROLLER_SYNC"
            /\ ControllerSyncFields \subseteq entry.fields
    THEN "insert_controller_sync"
    ELSE "none"

\* LogParser._store_entry: the DatabaseManager insert the entry is handed
\* to, or "none" when it is handed to none (_store_entry returns False).
StoreCall(entry) ==
    IF entry.log_type = "KEY_CREATION" /\ KeyCreationFields \subseteq entry.fields
    THEN "insert_key_creation"
    ELSE IF entry.log_type = "SYNC_LATENCY" /\ SyncLatencyFields \subseteq entry.fields
    THEN "insert_sync_latency"
    ELSE IF entry.log_type = "KEY_COUNT" /\ KeyCountFields \subseteq entry.fields
    THEN "insert_key_count"
    ELSE IF entry.log_type = "CONTROLLER_SYNC"
            /\ ControllerSyncFields \subseteq entry.fields
    THEN "insert_controller_sync"
    ELSE "none"

Inserts ==
    { "insert_key_creation", "insert_sync_latency", "insert_key_count",
      "insert_controller_sync" }

\* ------------------------------------------------------- DatabaseManager
\* datetime.strptime(timestamp_str.split('+')[0], '%Y-%m-%dT%H:%M:%S.%f')
\* succeeds only when what precedes the first '+' is a date-time with
\* fractional seconds; otherwise it raises ValueError.
StrptimeOk(ts) == ts = "plus"

\* self.connection is "none" (None), "open" (is_connected() is true) or
\* "closed" (a connection object that is no longer connected).
ConnStates == { "none", "open", "closed" }

\* Outcomes of mysql.connector.connect inside connect(): "ok", "error" (it
\* raises Error) or "not_connected" (it returns a connection that is not
\* connected).
ConnectOutcomes == { "ok", "error", "not_connected" }

\* Faults of one write on an open connection: "none"; "statement" (execute
\* raises Error, the connection stays usable); "commit" (commit raises Error,
\* the connection stays usable); "lost_execute" and "lost_commit" (the
\* connection is lost while execute or commit runs: the call raises Error,
\* and so does every later call on the connection, rollback included).
Faults == { "none", "statement", "commit", "lost_execute", "lost_commit" }

\* DatabaseManager.connect: the connection after the attempt and its result.
Connect(outcome) ==
    IF outcome = "ok" THEN [conn |-> "open", ok |-> TRUE]
    ELSE IF outcome = "error" THEN [conn |-> "none", ok |-> FALSE]
    ELSE [conn |-> "closed", ok |-> FALSE]

\* A reconnect that opens a new connection whatever the state of the old one.
ReconnectAlways(conn, outcome) ==
    [conn |-> Connect(outcome).conn, ok |-> Connect(outcome).ok, connects |-> 1]

\* DatabaseManager.reconnect: connect() only when not connected; connects is
\* the number of connect() calls made.
Reconnect(conn, outcome) ==
    IF conn # "open"
    THEN [conn |-> Connect(outcome).conn, ok |-> Connect(outcome).ok, connects |-> 1]
    ELSE [conn |-> conn, ok |-> TRUE, connects |-> 0]

\* An error handler that returns False without rolling back.
OnErrorNoRollback(conn) == [result |-> FALSE, exc |-> "none", rollbacks |-> 0]

\* The except-Error handler of a write: one rollback when a connection
\* object exists; a rollback on a lost connection raises Error, which leaves
\* the write.
OnError(conn) ==
    IF conn = "none" THEN [result |-> FALSE, exc |-> "none", rollbacks |-> 0]
    ELSE IF conn = "open" THEN [result |-> FALSE, exc |-> "none", rollbacks |-> 1]
    ELSE [result |-> FALSE, exc |-> "Error", rollbacks |-> 1]

\* One DatabaseManager write (insert_key_creation, insert_sync_latency,
\* insert_key_count, insert_controller_sync, mark_file_processed):
\* reconnect, cursor, strptime (inserts only), execute, commit.
\*   result     the value returned (meaningless when exc # "none")
\*   exc        the exception that leaves the write, or "none"
\*   conn       the connection afterwards
\*   stored     the row was executed and committed
\*   error      a connection or database error occurred
\*   connects   connect() calls made by reconnect()
\*   connected  reconnect() returned True
\*   executes   cursor.execute calls
\*   commits    connection.commit calls
\*   rollbacks  connection.rollback calls
\*   pending    a statement of this write was executed and is neither
\*              committed nor rolled back on a connection that is still open
DbWrite(op, ts, conn, outcome, fault) ==
    LET rc == Reconnect(conn, outcome) IN
    IF ~rc.ok
    THEN [result |-> FALSE, exc |-> "none", conn |-> rc.conn, stored |-> FALSE,
          error |-> TRUE, connects |-> rc.connects, connected |-> FALSE,
          executes |-> 0, commits |-> 0, rollbacks |-> 0, pending |-> FALSE]
    ELSE IF op \in Inserts /\ ~StrptimeOk(ts)
    THEN [result |-> FALSE, exc |-> "ValueError", conn |-> rc.conn, stored |-> FALSE,
          error |-> FALSE, connects |-> rc.connects, connected |-> TRUE,
          executes |-> 0, commits |-> 0, rollbacks |-> 0, pending |-> FALSE]
    ELSE IF fault = "none"
    THEN [result |-> TRUE, exc |-> "none", conn |-> rc.conn, stored |-> TRUE,
          error |-> FALSE, connects |-> rc.connects, connected |-> TRUE,
          executes |-> 1, commits |-> 1, rollbacks |-> 0, pending |-> FALSE]
    ELSE LET after == IF fault \in { "statement", "commit" } THEN rc.conn ELSE "closed"
             h == OnError(after)
             executed == fault \in { "commit", "lost_commit" }
         IN [result |-> h.result, exc |-> h.exc, conn |-> after, stored |-> FALSE,
             error |-> TRUE, connects |-> rc.connects, connected |-> TRUE,
             executes |-> 1,
             commits |-> IF executed THEN 1 ELSE 0,
             rollbacks |-> h.rollbacks,
             pending |-> executed /\ after = "open" /\ h.rollbacks = 0]

\* ------------------------------------------------------------ the tables
\* The tables are sets (key_creations, processed_files) or bags (the three
\* metric tables, kept in one bag whose rows name their table) of rows.
\* The columns that carry a unique key: the table definitions are not part
\* of the sources; the keys are those of section 6 of the specification.
KeyCreationsKey == "key_identity"
ProcessedFilesKey == "filename"

\* INSERT ... with no regard for rows of the same key.
InsertRow(table, row, key, updated) == table \cup { row }

\* INSERT ... ON DUPLICATE KEY UPDATE c = VALUES(c) for every column.
UpsertAllColumns(table, row, key, updated) ==
    { r \in table : r[key] # row[key] } \cup { row }

\* INSERT ... ON DUPLICATE KEY UPDATE c = VALUES(c), ... for the columns c
\* of updated: a row of the same key keeps its other columns.
Upsert(table, row, key, updated) ==
    IF \E r \in table : r[key] = row[key]
    THEN { IF r[key] = row[key]
           THEN [c \in DOMAIN r |-> IF c \in updated THEN row[c] ELSE r[c]]
           ELSE r : r \in table }
    ELSE table \cup { row }

\* The row insert_key_creation writes (database.py:109-121).
KeyCreationRow(values, log_file) ==
    [key_identity |-> values.key_identity,
     sequence_number |-> values.sequence_number,
     source_site_id |-> values.source_site,
     destination_site_id |-> values.dest_site,
     key_pool_type |-> values.key_type,
     timestamp |-> values.at,
     log_file |-> log_file]

\* The table an insert writes to.
TableOf(call) ==
    IF call = "insert_key_creation" THEN "key_creations"
    ELSE IF call = "insert_sync_latency" THEN "sync_latency_metrics"
    ELSE IF call = "insert_key_count" THEN "key_count_metrics"
    ELSE "controller_syncs"

\* The row insert_sync_latency, insert_key_count or insert_controller_sync
\* writes.
MetricRow(call, values, log_file) ==
    [table |-> TableOf(call), values |-> values, log_file |-> log_file]

\* The row mark_file_processed writes (database.py:266-281).
SummaryRow(filename, file_size, st) ==
    [filename |-> filename, file_size |-> file_size,
     total_lines |-> st.total_lines,
     key_creations_count |-> st.key_creations,
     sync_latency_count |-> st.sync_latency,
     key_count_count |-> st.key_counts,
     controller_sync_count |-> st.controller_syncs]

\* A metric insert into a table with a unique key over all its columns.
WriteMetricOnce(table, call, values, log_file) ==
    IF BagIn(MetricRow(call, values, log_file), table) THEN table
    ELSE table (+) SetToBag({ MetricRow(call, values, log_file) })

\* The metric tables after the plain INSERT of insert_sync_latency,
\* insert_key_count or insert_controller_sync was committed: one more row.
WriteMetric(table, call, values, log_file) ==
    table (+) SetToBag({ MetricRow(call, values, log_file) })

\* key_creations after insert_key_creation's statement was committed.
WriteKeyCreation(table, values, log_file) ==
    Upsert(table, KeyCreationRow(values, log_file), KeyCreationsKey,
           { "sequence_number" })

\* processed_files after mark_file_processed's statement was committed.
WriteSummary(table, filename, file_size, st) ==
    Upsert(table, SummaryRow(filename, file_size, st), ProcessedFilesKey,
           { "file_size", "total_lines" })

\* ------------------------------------------------------ process_log_file
ZeroStats ==
    [total_lines |-> 0, key_creations |-> 0, sync_latency |-> 0, key_counts |-> 0,
     controller_syncs |-> 0, unknown |-> 0, db_errors |-> 0]

\* Counters that take sync-latency records for key counts.
TypeCounterSwapped(log_type) ==
    IF log_type = "KEY_CREATION" THEN "key_creations"
    ELSE IF log_type = "SYNC_LATENCY" THEN "key_counts"
    ELSE IF log_type = "KEY_COUNT" THEN "sync_latency"
    ELSE IF log_type = "CONTROLLER_SYNC" THEN "controller_syncs"
    ELSE "unknown"

\* The counter a stored entry of the given type adds to (parser.py:158-168).
TypeCounter(log_type) ==
    IF log_type = "KEY_CREATION" THEN "key_creations"
    ELSE IF log_type = "SYNC_LATENCY" THEN "sync_latency"
    ELSE IF log_type = "KEY_COUNT" THEN "key_counts"
    ELSE IF log_type = "CONTROLLER_SYNC" THEN "controller_syncs"
    ELSE "unknown"

\* Statistics that count a store error for every entry that was not stored.
UpdateStatsEveryFailure(st, entry, success) ==
    IF success
    THEN [st EXCEPT ![TypeCounter(entry.log_type)] = @ + 1]
    ELSE [st EXCEPT !.db_errors = @ + 1]

\* The statistics after _store_entry returned success for the entry
\* (parser.py:157-170).
UpdateStats(st, entry, success) ==
    IF success
    THEN [st EXCEPT ![TypeCounter(entry.log_type)] = @ + 1]
    ELSE IF entry.log_type # "UNKNOWN"
    THEN [st EXCEPT !.db_errors = @ + 1]
    ELSE st

\* A scan that stops at the first store call that returns false.
AfterLineStopOnFailure(success) == IF success THEN "scan" ELSE "eof"

\* What the scan of process_log_file does after a line whose store call
\* returned: it goes on to the next line whatever the result.
AfterLine(success) == "scan"

\* A process_log_file that returns empty stats for a file it cannot open.
OpenFailedStats == "stats"

\* What process_log_file returns when the file cannot be opened (the
\* except (IOError, OSError) branch).
OpenFailed == None

\* The write that was not made.
NoWrite ==
    [result |-> FALSE, exc |-> "none", conn |-> "none", stored |-> FALSE,
     error |-> FALSE, connects |-> 0, connected |-> FALSE, executes |-> 0,
     commits |-> 0, rollbacks |-> 0, pending |-> FALSE]

NoCalls == [c \in Inserts |-> [ok |-> 0, failed |-> 0]]

NoRecords == [t \in RecognizedTypes |-> 0]

\* ------------------------------------------------------------- processors
\* UnifiedProcessor.processors, in insertion order (both enabled).
ProcessorOrder == << "keypool", "ogs" >>
Procs == Range(ProcessorOrder)

\* BaseProcessor.connect_db: the number of attempts.
max_retries == 3

\* The package the remote collector serves (its package_timestamp).
Package == "pkg"

\* The three inserts of OGSProcessor.process_data that call
\* ensure_connection, in call order; insert_alerts follows them.
InsertSteps == << "environment", "link", "summary" >>

\* ------------------------------------------------------------------ state
VARIABLES
    processed_files,   \* LogDownloader.processed_files
    durable,           \* the lines of config.PROCESSED_FILES_LOG
    connection,        \* DatabaseManager.connection
    summaryRows,       \* filenames with a row in table processed_files
    pc,                \* position of the ingestion loop
    available,         \* what get_available_logs returned in this cycle
    new_logs,          \* what get_new_logs returned in this cycle
    fileIdx,           \* index in new_logs of the file being handled
    stats,             \* the stats of the running process_log_file
    fileLen,           \* lines of the file the running process_log_file reads
    linesRead,         \* lines the running process_log_file has read
    storable,          \* lines read whose entry has the fields its insert needs
    calls,             \* per insert: calls of this run that returned true / false
    nonblank,          \* lines read whose stripped text is not empty
    records,           \* per type: entries parsed in this run that have every
                       \* field _store_entry requires of the type
    ev,                \* the operation that completed last
    fullRuns,          \* per file: process_log_file runs that returned stats
    completed,         \* files of which one process_log_file run has handled
                       \* every line and then invoked mark_file_processed
    cycles,            \* polling cycles started
    restarts,          \* process restarts
    appendFailed,      \* an append to the durable list has failed
    scope,             \* "loop": the whole pipeline; "file": one process_log_file;
                       \* "rerun": process_log_file twice over one file;
                       \* "parse": parse_log_entry and _store_entry called
                       \* directly; "store": DatabaseManager called directly
    key_creations,     \* the rows of table key_creations
    metrics,           \* the rows of the three metric tables
    summaries,         \* the rows of table processed_files
    parsed,            \* the last direct parse_log_entry call: line and result
    remembered,        \* an earlier direct parse_log_entry call
    args,              \* the arguments of the last direct DatabaseManager call
    content,           \* the lines of the file that is processed twice
    snapshot,          \* the tables when the first of the two runs had returned
    second,
    running,            \* BaseProcessor.running, per processor
    db_conn,            \* BaseProcessor.db_conn, per processor
    wpc,                \* position of each processor's worker thread
    attempt,            \* connect_db: attempts made in the current call
    caller,             \* connect_db: "run" or "insert", who called it
    insertStep,         \* process_data: index of the insert under way
    pd_success,         \* process_data: its local success
    processed_packages, \* OGSProcessor.processed_packages
    caught,             \* the last cycle ended in the loop's except handler
    mainpc,             \* position of the main thread
    stopIdx,            \* UnifiedProcessor.stop: index of the processor
    stopPhase,          \* BaseProcessor.stop: "flag" or "close"
    shutdown_event,     \* UnifiedProcessor.shutdown_event is set
    files,              \* the regular files of the log server's host
    response,           \* the log server's answer to the last request
    returned,           \* process_data: what its inserts returned so far
    ogs_rows,           \* rows of the package in ogs_environment_data, ogs_link_data
    simulator,          \* KeyPoolLogSimulator: site_id, sequence_number
    log_lines           \* the lines generated and not yet parsed             \* the second of the two runs has begun

vars ==
    << processed_files, durable, connection, summaryRows, pc, available, new_logs,
       fileIdx, stats, fileLen, linesRead, storable, calls, nonblank, records, ev,
       fullRuns, completed, cycles, restarts, appendFailed, scope, key_creations,
       metrics, summaries, parsed, remembered, args, content, snapshot, second,
       running, db_conn, wpc, attempt, caller, insertStep, pd_success,
       processed_packages, caught, mainpc, stopIdx, stopPhase, shutdown_event,
       files, response, returned, ogs_rows, simulator, log_lines >>

tableVars == << key_creations, metrics, summaries >>
directVars == << parsed, remembered, args >>
rerunVars == << content, snapshot, second >>
workerVars ==
    << running, db_conn, wpc, attempt, caller, insertStep, pd_success,
       processed_packages, caught >>
mainVars == << mainpc, stopIdx, stopPhase, shutdown_event >>
serverVars == << files, response >>
ogsVars == << returned, ogs_rows >>
simVars == << simulator, log_lines >>
appVars == << workerVars, mainVars, serverVars, ogsVars, simVars >>

Event(op, file, exc, value, line, call, w, before) ==
    [op |-> op, file |-> file, exc |-> exc, value |-> value, line |-> line,
     call |-> call, w |-> w, before |-> before]

NoEvent == Event("none", None, "none", "none", BlankLine, "none", NoWrite, "none")

NoParse == [line |-> BlankLine, entry |-> NoEntry, called |-> FALSE]

NoArgs == [op |-> "none", row |-> <<>>]

NoSnapshot ==
    [key_creations |-> {}, metrics |-> EmptyBag, summaries |-> {}, clean |-> FALSE]

\* No request was answered.
NoResponse == [request |-> None, status |-> 0, body |-> None]

\* No KeyPoolLogSimulator was constructed.
NoSimulator == [site_id |-> 0, sequence_number |-> 0]

\* UnifiedProcessor.__init__ and BaseProcessor.__init__: no thread started,
\* no connection, nothing running; the log server is not looked at.
AppCreated ==
    /\ running = [p \in Procs |-> FALSE]
    /\ db_conn = [p \in Procs |-> "none"]
    /\ wpc = [p \in Procs |-> "idle"]
    /\ attempt = [p \in Procs |-> 0]
    /\ caller = [p \in Procs |-> "run"]
    /\ insertStep = [p \in Procs |-> 1]
    /\ pd_success = [p \in Procs |-> TRUE]
    /\ processed_packages = {}
    /\ caught = [p \in Procs |-> FALSE]
    /\ mainpc = "created"
    /\ stopIdx = 1
    /\ stopPhase = "flag"
    /\ shutdown_event = FALSE
    /\ files = {}
    /\ response = NoResponse
    /\ returned = <<>>
    /\ ogs_rows = [t \in { "environment", "link" } |-> 0]
    /\ simulator = NoSimulator
    /\ log_lines = <<>>

\* Nothing is stored, nothing was called directly, no file is run twice, no
\* processor thread is started.
Untouched ==
    /\ key_creations = {}
    /\ metrics = EmptyBag
    /\ summaries = {}
    /\ parsed = NoParse
    /\ remembered = NoParse
    /\ args = NoArgs
    /\ content = <<>>
    /\ snapshot = NoSnapshot
    /\ second = FALSE
    /\ AppCreated

Init ==
    /\ processed_files = {}
    /\ durable = <<>>
    /\ connection \in { "open", "none" }
    /\ summaryRows = {}
    /\ pc = "idle"
    /\ available = <<>>
    /\ new_logs = <<>>
    /\ fileIdx = 0
    /\ stats = ZeroStats
    /\ fileLen = 0
    /\ linesRead = 0
    /\ storable = 0
    /\ calls = NoCalls
    /\ nonblank = 0
    /\ records = NoRecords
    /\ ev = NoEvent
    /\ fullRuns = [f \in Names |-> 0]
    /\ completed = {}
    /\ cycles = 0
    /\ restarts = 0
    /\ appendFailed = FALSE
    /\ scope = "loop"
    /\ Untouched

\* The files the exploration feeds to process_log_file.
InputLines == IF scope = "file" THEN Lines ELSE LoopLines
InputMaxLen ==
    IF scope = "file" THEN MaxLines
    ELSE IF scope = "rerun" THEN MaxRerunLines
    ELSE MaxLoopLines

CurFile == new_logs[fileIdx].filename

\* The exploration of the whole pipeline keeps of the database only
\* summaryRows, the files that have a summary row; the rows of the tables
\* are kept where process_log_file or DatabaseManager is explored by itself.
RowsKept == scope # "loop"

\* The lines the file can hold at the given position.
LinesAt(i) == IF scope = "rerun" THEN { content[i] } ELSE InputLines

\* No process_log_file is running: its locals do not exist.
ResetRun ==
    /\ stats' = ZeroStats
    /\ fileLen' = 0
    /\ linesRead' = 0
    /\ storable' = 0
    /\ calls' = NoCalls
    /\ nonblank' = 0
    /\ records' = NoRecords

\* The loop goes on to the next file of new_logs, or ends the cycle.
NextFile ==
    IF fileIdx < Len(new_logs)
    THEN /\ fileIdx' = fileIdx + 1
         /\ pc' = "download"
    ELSE /\ fileIdx' = 0
         /\ pc' = "idle"

\* An exception reached the loop's outermost handler: the cycle ends.
AbortCycle ==
    /\ fileIdx' = 0
    /\ pc' = "idle"

\* Listing and Filtering: one get_new_logs call.
Poll ==
    /\ pc = "idle"
    /\ cycles < MaxCycles
    /\ \E resp \in ListResponses :
         LET got == GetAvailableLogs(resp)
             new == GetNewLogs(resp, processed_files)
         IN /\ available' = got.value
            /\ new_logs' = new.value
            /\ ev' = Event("get_new_logs", None, new.exc, resp.kind, BlankLine,
                           "none", NoWrite, connection)
            /\ IF new.exc = "none" /\ new.value # <<>>
               THEN fileIdx' = 1 /\ pc' = "download"
               ELSE fileIdx' = 0 /\ pc' = "idle"
    /\ cycles' = cycles + 1
    /\ ResetRun
    /\ UNCHANGED << processed_files, durable, connection, summaryRows, fullRuns,
                    completed, restarts, appendFailed, scope >>
    /\ UNCHANGED << tableVars, directVars, rerunVars, appVars >>

\* Downloading: one download_log_file call for the current file.
Download ==
    /\ pc = "download"
    /\ \E resp \in DownloadResponses :
         LET got == DownloadLogFile(CurFile, resp) IN
         /\ ev' = Event("download_log_file", CurFile, got.exc,
                        IF got.filepath = None THEN None ELSE "path", BlankLine,
                        "none", NoWrite, resp)
         /\ IF got.exc # "none" THEN AbortCycle
            ELSE IF got.filepath = None THEN NextFile
            ELSE pc' = "open" /\ fileIdx' = fileIdx
    /\ available' = <<>>
    /\ ResetRun
    /\ UNCHANGED << processed_files, durable, connection, summaryRows, new_logs,
                    fullRuns, completed, cycles, restarts, appendFailed, scope >>
    /\ UNCHANGED << tableVars, directVars, rerunVars, appVars >>

\* process_log_file, from its call to the open of the file: getsize or open
\* may raise OSError, and then it returns None and the file is not marked.
OpenFile ==
    /\ pc = "open"
    /\ \E ok \in BOOLEAN, n \in 0..InputMaxLen :
         IF ok
         THEN /\ pc' = "scan"
              /\ fileIdx' = fileIdx
              /\ fileLen' = n
              /\ scope = "rerun" => n = Len(content)
              /\ ev' = Event("open", CurFile, "none", "ok", BlankLine, "none",
                             NoWrite, connection)
         ELSE /\ ev' = Event("process_log_file", CurFile, "none", OpenFailed,
                             BlankLine, "none", NoWrite, connection)
              /\ fileLen' = 0
              /\ n = 0
              /\ IF OpenFailed = None THEN NextFile
                 ELSE pc' = "mark" /\ fileIdx' = fileIdx
    /\ stats' = ZeroStats
    /\ linesRead' = 0
    /\ storable' = 0
    /\ calls' = NoCalls
    /\ nonblank' = 0
    /\ records' = NoRecords
    /\ UNCHANGED << processed_files, durable, connection, summaryRows, available,
                    new_logs, fullRuns, completed, cycles, restarts, appendFailed, scope >>
    /\ UNCHANGED << tableVars, directVars, rerunVars, appVars >>

\* The connect outcomes and faults a write can meet on the given connection.
OutcomesFor(conn) == IF conn = "open" THEN { "ok" } ELSE ConnectOutcomes
FaultsFor(conn, outcome) ==
    IF Reconnect(conn, outcome).ok THEN Faults ELSE { "none" }

Tally(c, call, success) ==
    IF success THEN [c EXCEPT ![call].ok = @ + 1]
    ELSE [c EXCEPT ![call].failed = @ + 1]

\* process_log_file, one iteration of its loop over the lines of the file:
\* strip, skip a blank line, count, parse_log_entry, _store_entry, count the
\* result. An exception of the insert is not caught by process_log_file
\* (it catches IOError and OSError) and ends the cycle in the loop's handler.
ScanLine ==
    /\ pc = "scan"
    /\ linesRead < fileLen
    /\ linesRead' = linesRead + 1
    /\ \E line \in LinesAt(linesRead + 1) :
         LET entry == ParseLogEntry(line)
             call == StoreCall(entry)
             st1 == [stats EXCEPT !.total_lines = @ + 1]
         IN
         /\ nonblank' = IF line.blank THEN nonblank ELSE nonblank + 1
         /\ records' =
              IF /\ ~line.blank
                 /\ entry.log_type \in RecognizedTypes
                 /\ RequiredFields(entry.log_type) \subseteq entry.fields
              THEN [records EXCEPT ![entry.log_type] = @ + 1]
              ELSE records
         /\ IF line.blank \/ entry = NoEntry \/ call = "none"
            THEN /\ stats' = IF line.blank THEN stats
                             ELSE IF entry = NoEntry THEN st1
                             ELSE UpdateStats(st1, entry, FALSE)
                 /\ ev' = Event("line", CurFile, "none", "none", line, "none", NoWrite,
                                connection)
                 /\ pc' = "scan"
                 /\ UNCHANGED << connection, calls, storable, fileIdx, key_creations,
                                 metrics >>
            ELSE \E outcome \in OutcomesFor(connection) :
                 \E fault \in FaultsFor(connection, outcome) :
                   LET w == DbWrite(call, entry.timestamp, connection, outcome, fault) IN
                   /\ connection' = w.conn
                   /\ storable' = storable + 1
                   /\ key_creations' =
                        IF RowsKept /\ w.stored /\ call = "insert_key_creation"
                        THEN WriteKeyCreation(key_creations, entry.values, CurFile)
                        ELSE key_creations
                   /\ metrics' =
                        IF RowsKept /\ w.stored /\ call # "insert_key_creation"
                        THEN WriteMetric(metrics, call, entry.values, CurFile)
                        ELSE metrics
                   /\ IF w.exc # "none"
                      THEN /\ stats' = st1
                           /\ calls' = calls
                           /\ ev' = Event("process_log_file", CurFile, w.exc, "raised",
                                          line, call, w, connection)
                           /\ AbortCycle
                      ELSE /\ stats' = UpdateStats(st1, entry, w.result)
                           /\ calls' = Tally(calls, call, w.result)
                           /\ ev' = Event("line", CurFile, "none", "none", line, call, w,
                                          connection)
                           /\ pc' = AfterLine(w.result)
                           /\ fileIdx' = fileIdx
    /\ UNCHANGED << processed_files, durable, summaryRows, available, new_logs,
                    fileLen, fullRuns, completed, cycles, restarts, appendFailed, scope >>
    /\ UNCHANGED << summaries, directVars, rerunVars, appVars >>

\* process_log_file after its loop: mark_file_processed (its result is not
\* read), then return stats; the loop then goes on to mark_as_processed.
ScanEnd ==
    /\ \/ pc = "scan" /\ linesRead = fileLen
       \/ pc = "eof"
    /\ \E outcome \in OutcomesFor(connection) :
       \E fault \in FaultsFor(connection, outcome) :
         LET w == DbWrite("mark_file_processed", None, connection, outcome, fault) IN
         /\ connection' = w.conn
         /\ completed' = IF linesRead = fileLen THEN completed \cup { CurFile }
                         ELSE completed
         /\ summaryRows' = IF w.stored THEN summaryRows \cup { CurFile }
                           ELSE summaryRows
         /\ summaries' = IF RowsKept /\ w.stored
                         THEN WriteSummary(summaries, CurFile, fileLen, stats)
                         ELSE summaries
         /\ IF w.exc # "none"
            THEN /\ ev' = Event("process_log_file", CurFile, w.exc, "raised",
                                BlankLine, "mark_file_processed", w, connection)
                 /\ fullRuns' = fullRuns
                 /\ AbortCycle
            ELSE /\ ev' = Event("process_log_file", CurFile, "none", "stats",
                                BlankLine, "mark_file_processed", w, connection)
                 /\ fullRuns' = [fullRuns EXCEPT ![CurFile] = @ + 1]
                 /\ pc' = "mark"
                 /\ fileIdx' = fileIdx
    /\ UNCHANGED << processed_files, durable, available, new_logs, stats, fileLen,
                    linesRead, storable, calls, nonblank, records, cycles, restarts,
                    appendFailed, scope >>
    /\ UNCHANGED << key_creations, metrics, directVars, rerunVars, appVars >>

\* Marking: mark_as_processed for a file whose process_log_file returned
\* stats.
Mark ==
    /\ pc = "mark"
    /\ \E appendOk \in BOOLEAN :
         LET m == MarkAsProcessed(CurFile, durable, processed_files, appendOk) IN
         /\ durable' = m.lines
         /\ processed_files' = m.processed
         /\ appendFailed' = (appendFailed \/ ~appendOk)
         /\ ev' = Event("mark_as_processed", CurFile, m.exc, "none", BlankLine,
                        "none", NoWrite, connection)
         /\ IF m.exc # "none" THEN AbortCycle ELSE NextFile
    /\ ResetRun
    /\ UNCHANGED << connection, summaryRows, available, new_logs, fullRuns,
                    completed, cycles, restarts, scope >>
    /\ UNCHANGED << tableVars, directVars, rerunVars, appVars >>

\* The process is stopped between two cycles and started again: a new
\* LogDownloader loads the durable list, a new DatabaseManager connects.
Restart ==
    /\ pc = "idle"
    /\ restarts < MaxRestarts
    /\ restarts' = restarts + 1
    /\ processed_files' = LoadProcessedFiles(durable)
    /\ \E outcome \in ConnectOutcomes :
         /\ connection' = Connect(outcome).conn
         /\ ev' = Event("restart", None, "none", "none", BlankLine, "none", NoWrite,
                        outcome)
    /\ available' = <<>>
    /\ new_logs' = <<>>
    /\ fileIdx' = 0
    /\ pc' = "idle"
    /\ ResetRun
    /\ UNCHANGED << durable, summaryRows, fullRuns, completed, cycles, appendFailed, scope >>
    /\ UNCHANGED << tableVars, directVars, rerunVars, appVars >>

\* The database server or the network drops the open connection.
ConnectionLost ==
    /\ connection = "open"
    /\ connection' = "closed"
    /\ UNCHANGED << processed_files, durable, summaryRows, pc, available, new_logs,
                    fileIdx, stats, fileLen, linesRead, storable, calls, nonblank,
                    records, ev, fullRuns, completed, cycles, restarts, appendFailed,
                    scope >>
    /\ UNCHANGED << tableVars, directVars, rerunVars, appVars >>

Next ==
    \/ Poll
    \/ Download
    \/ OpenFile
    \/ ScanLine
    \/ ScanEnd
    \/ Mark
    \/ Restart
    \/ ConnectionLost

Spec == Init /\ [][Next]_vars

\* process_log_file alone, over one downloaded file.
InitFile ==
    /\ processed_files = {}
    /\ durable = <<>>
    /\ connection \in ConnStates
    /\ summaryRows = {}
    /\ pc = "open"
    /\ available = <<>>
    /\ new_logs = << FileEntry(<<"a", ".log">>) >>
    /\ fileIdx = 1
    /\ stats = ZeroStats
    /\ fileLen = 0
    /\ linesRead = 0
    /\ storable = 0
    /\ calls = NoCalls
    /\ nonblank = 0
    /\ records = NoRecords
    /\ ev = NoEvent
    /\ fullRuns = [f \in Names |-> 0]
    /\ completed = {}
    /\ cycles = 1
    /\ restarts = 0
    /\ appendFailed = FALSE
    /\ scope = "file"
    /\ Untouched

NextInFile ==
    \/ OpenFile
    \/ ScanLine
    \/ ScanEnd
    \/ ConnectionLost

SpecFile == InitFile /\ [][NextInFile]_vars

\* What reading the next line of the open file can raise: OSError (the
\* device or the network file system fails) or UnicodeDecodeError (bytes
\* that are not UTF-8), which is a ValueError and no OSError.
ReadErrors == { "OSError", "UnicodeDecodeError" }

\* process_log_file when the iteration over the open file raises: the
\* except (IOError, OSError) clause returns None for an OSError; anything
\* else leaves process_log_file. The store calls made for the lines before
\* stay made; mark_file_processed is not reached.
ReadFails ==
    /\ scope = "file"
    /\ pc = "scan"
    /\ linesRead < fileLen
    /\ \E error \in ReadErrors :
         IF error = "OSError"
         THEN /\ ev' = Event("process_log_file", CurFile, "none", None, BlankLine,
                             "none", NoWrite, "read_failed")
              /\ NextFile
         ELSE /\ ev' = Event("process_log_file", CurFile, error, "raised", BlankLine,
                             "none", NoWrite, "read_failed")
              /\ AbortCycle
    /\ UNCHANGED << processed_files, durable, connection, summaryRows, available,
                    new_logs, stats, fileLen, linesRead, storable, calls, nonblank,
                    records, fullRuns, completed, cycles, restarts, appendFailed,
                    scope >>
    /\ UNCHANGED << tableVars, directVars, rerunVars, appVars >>

\* process_log_file over files whose reading can fail.
NextRead ==
    \/ NextInFile
    \/ ReadFails

SpecRead == InitFile /\ [][NextRead]_vars

\* ------------------------------- process_log_file twice over one file
\* The lines of the file: two key creations of one identity, the three
\* metric records, a record without its identity, a blank line.
RerunLines ==
    { KeyCreationLine("plus", KeyCreationFields),
      WithValues(KeyCreationLine("plus", KeyCreationFields),
                 [DefaultValues EXCEPT !.sequence_number = 2]),
      SyncLatencyLine("plus", SyncLatencyFields),
      KeyCountLine("plus", KeyCountFields),
      ControllerSyncLine("plus", ControllerSyncFields),
      KeyCreationLine("plus", KeyCreationFields \ { "key_identity" }),
      BlankLine }

\* Every write of the process_log_file run that has just returned was
\* committed.
RunClean ==
    /\ \A c \in Inserts : calls[c].failed = 0
    /\ ev.op = "process_log_file"
    /\ ev.w.stored

\* process_log_file has returned stats; it is called again with the same
\* file.
RunAgain ==
    /\ scope = "rerun"
    /\ pc = "mark"
    /\ ~second
    /\ second' = TRUE
    /\ snapshot' = [key_creations |-> key_creations, metrics |-> metrics,
                    summaries |-> summaries, clean |-> RunClean]
    /\ pc' = "open"
    /\ ev' = Event("rerun", CurFile, "none", "none", BlankLine, "none", NoWrite,
                   connection)
    /\ ResetRun
    /\ UNCHANGED << processed_files, durable, connection, summaryRows, available,
                    new_logs, fileIdx, fullRuns, completed, cycles, restarts,
                    appendFailed, scope, tableVars, directVars, content, appVars >>

InitRerun ==
    /\ processed_files = {}
    /\ durable = <<>>
    /\ connection \in ConnStates
    /\ summaryRows = {}
    /\ pc = "open"
    /\ available = <<>>
    /\ new_logs = << FileEntry(<<"a", ".log">>) >>
    /\ fileIdx = 1
    /\ stats = ZeroStats
    /\ fileLen = 0
    /\ linesRead = 0
    /\ storable = 0
    /\ calls = NoCalls
    /\ nonblank = 0
    /\ records = NoRecords
    /\ ev = NoEvent
    /\ fullRuns = [f \in Names |-> 0]
    /\ completed = {}
    /\ cycles = 1
    /\ restarts = 0
    /\ appendFailed = FALSE
    /\ scope = "rerun"
    /\ key_creations = {}
    /\ metrics = EmptyBag
    /\ summaries = {}
    /\ parsed = NoParse
    /\ remembered = NoParse
    /\ args = NoArgs
    /\ content \in UNION { [1..n -> RerunLines] : n \in 1..MaxRerunLines }
    /\ snapshot = NoSnapshot
    /\ second = FALSE
    /\ AppCreated

NextRerun ==
    \/ OpenFile
    \/ ScanLine
    \/ ScanEnd
    \/ RunAgain
    \/ ConnectionLost

SpecRerun == InitRerun /\ [][NextRerun]_vars

\* --------------------------------------- DatabaseManager called directly
\* The arguments of the direct insert_key_creation calls: two identities,
\* two sequence numbers, two settings of the other columns and the file.
KeyCreationArgs ==
    { [values |-> [DefaultValues EXCEPT !.key_identity = id,
                                        !.sequence_number = seq],
       log_file |-> <<"a", ".log">>] :
        id \in { "k1", "k2" }, seq \in { 1, 2 } }
    \cup
    { [values |-> [DefaultValues EXCEPT !.key_identity = id,
                                        !.sequence_number = seq,
                                        !.source_site = 103, !.dest_site = 104,
                                        !.key_type = "PRIVATE", !.at = 2],
       log_file |-> <<"b", ".log">>] :
        id \in { "k1", "k2" }, seq \in { 1, 2 } }

\* The file sizes and stats of the direct mark_file_processed calls.
SummaryArgs ==
    { [file_size |-> 10,
       stats |-> [ZeroStats EXCEPT !.total_lines = 1, !.key_creations = 1]],
      [file_size |-> 20,
       stats |-> [ZeroStats EXCEPT !.total_lines = 2, !.sync_latency = 2]] }

\* The result of a write as text.
ResultOf(w) ==
    IF w.exc # "none" THEN "raised" ELSE IF w.result THEN "True" ELSE "False"

\* One insert_key_creation call.
InsertKeyCreation ==
    /\ pc = "direct"
    /\ scope = "store"
    /\ \E a \in KeyCreationArgs, ts \in { "plus", "bad" } :
       \E outcome \in OutcomesFor(connection) :
       \E fault \in FaultsFor(connection, outcome) :
         LET w == DbWrite("insert_key_creation", ts, connection, outcome, fault) IN
         /\ connection' = w.conn
         /\ args' = [op |-> "insert_key_creation",
                     row |-> KeyCreationRow(a.values, a.log_file)]
         /\ key_creations' = IF w.stored
                             THEN WriteKeyCreation(key_creations, a.values, a.log_file)
                             ELSE key_creations
         /\ ev' = Event("insert_key_creation", a.log_file, w.exc, ResultOf(w),
                        BlankLine, "insert_key_creation", w, connection)
    /\ UNCHANGED << processed_files, durable, summaryRows, pc, available, new_logs,
                    fileIdx, stats, fileLen, linesRead, storable, calls, nonblank,
                    records, fullRuns, completed, cycles, restarts, appendFailed,
                    scope, metrics, summaries, parsed, remembered, rerunVars, appVars >>

\* One mark_file_processed call.
MarkFileProcessed ==
    /\ pc = "direct"
    /\ scope = "store"
    /\ \E a \in SummaryArgs, filename \in { <<"a", ".log">>, <<"b", ".log">> } :
       \E outcome \in OutcomesFor(connection) :
       \E fault \in FaultsFor(connection, outcome) :
         LET w == DbWrite("mark_file_processed", None, connection, outcome, fault) IN
         /\ connection' = w.conn
         /\ args' = [op |-> "mark_file_processed",
                     row |-> SummaryRow(filename, a.file_size, a.stats)]
         /\ summaries' = IF w.stored
                         THEN WriteSummary(summaries, filename, a.file_size, a.stats)
                         ELSE summaries
         /\ summaryRows' = IF w.stored THEN summaryRows \cup { filename }
                           ELSE summaryRows
         /\ ev' = Event("mark_file_processed", filename, w.exc, ResultOf(w),
                        BlankLine, "mark_file_processed", w, connection)
    /\ UNCHANGED << processed_files, durable, pc, available, new_logs, fileIdx, stats,
                    fileLen, linesRead, storable, calls, nonblank, records, fullRuns,
                    completed, cycles, restarts, appendFailed, scope, key_creations,
                    metrics, parsed, remembered, rerunVars, appVars >>

InitStore ==
    /\ processed_files = {}
    /\ durable = <<>>
    /\ connection \in ConnStates
    /\ summaryRows = {}
    /\ pc = "direct"
    /\ available = <<>>
    /\ new_logs = <<>>
    /\ fileIdx = 0
    /\ stats = ZeroStats
    /\ fileLen = 0
    /\ linesRead = 0
    /\ storable = 0
    /\ calls = NoCalls
    /\ nonblank = 0
    /\ records = NoRecords
    /\ ev = NoEvent
    /\ fullRuns = [f \in Names |-> 0]
    /\ completed = {}
    /\ cycles = 1
    /\ restarts = 0
    /\ appendFailed = FALSE
    /\ scope = "store"
    /\ Untouched

\* insert_key_creation alone.
NextKeyCreations ==
    \/ InsertKeyCreation
    \/ ConnectionLost

SpecKeyCreations == InitStore /\ [][NextKeyCreations]_vars

\* mark_file_processed alone.
NextSummaries ==
    \/ MarkFileProcessed
    \/ ConnectionLost

SpecSummaries == InitStore /\ [][NextSummaries]_vars

\* ------------------------------------- the parser's methods called directly
\* A parse_log_entry that asks the database manager before it parses.
ParseCallStateful(line) ==
    IF connection = "open" THEN ParseLogEntry(line) ELSE NoEntry

\* parser.parse_log_entry(line) as a call on the LogParser object: it reads
\* its argument and nothing of the object.
ParseCall(line) == ParseLogEntry(line)

\* One parse_log_entry call. The call before it may be kept in remembered,
\* to be compared with a later call on the same line.
ParseLine ==
    /\ pc = "direct"
    /\ scope = "parse"
    /\ \E line \in ParseInputs :
         /\ parsed' = [line |-> line, entry |-> ParseCall(line), called |-> TRUE]
         /\ ev' = Event("parse_log_entry", None, "none", "none", BlankLine, "none",
                        NoWrite, connection)
    /\ remembered' \in { remembered, parsed }
    /\ UNCHANGED << processed_files, durable, connection, summaryRows, pc, available,
                    new_logs, fileIdx, stats, fileLen, linesRead, storable, calls,
                    nonblank, records, fullRuns, completed, cycles, restarts,
                    appendFailed, scope, tableVars, args, rerunVars, appVars >>

\* One _store_entry call with the entry parse_log_entry returned last.
StoreEntry ==
    /\ pc = "direct"
    /\ scope = "parse"
    /\ parsed.called
    /\ parsed.entry # NoEntry
    /\ BagCardinality(metrics) < MaxRows
    /\ LET entry == parsed.entry
           call == StoreCall(entry)
       IN
       IF call = "none"
       THEN /\ ev' = Event("_store_entry", CurFile, "none", "False", BlankLine, "none",
                           NoWrite, connection)
            /\ UNCHANGED << connection, key_creations, metrics >>
       ELSE \E outcome \in OutcomesFor(connection) :
            \E fault \in FaultsFor(connection, outcome) :
              LET w == DbWrite(call, entry.timestamp, connection, outcome, fault) IN
              /\ connection' = w.conn
              /\ key_creations' =
                   IF w.stored /\ call = "insert_key_creation"
                   THEN WriteKeyCreation(key_creations, entry.values, CurFile)
                   ELSE key_creations
              /\ metrics' =
                   IF w.stored /\ call # "insert_key_creation"
                   THEN WriteMetric(metrics, call, entry.values, CurFile)
                   ELSE metrics
              /\ ev' = Event("_store_entry", CurFile, w.exc,
                             IF w.exc # "none" THEN "raised"
                             ELSE IF w.result THEN "True" ELSE "False",
                             BlankLine, call, w, connection)
    /\ UNCHANGED << processed_files, durable, summaryRows, pc, available, new_logs,
                    fileIdx, stats, fileLen, linesRead, storable, calls, nonblank,
                    records, fullRuns, completed, cycles, restarts, appendFailed,
                    scope, summaries, directVars, rerunVars, appVars >>

InitParse ==
    /\ processed_files = {}
    /\ durable = <<>>
    /\ connection \in ConnStates
    /\ summaryRows = {}
    /\ pc = "direct"
    /\ available = <<>>
    /\ new_logs = << FileEntry(<<"a", ".log">>) >>
    /\ fileIdx = 1
    /\ stats = ZeroStats
    /\ fileLen = 0
    /\ linesRead = 0
    /\ storable = 0
    /\ calls = NoCalls
    /\ nonblank = 0
    /\ records = NoRecords
    /\ ev = NoEvent
    /\ fullRuns = [f \in Names |-> 0]
    /\ completed = {}
    /\ cycles = 1
    /\ restarts = 0
    /\ appendFailed = FALSE
    /\ scope = "parse"
    /\ Untouched

NextParse ==
    \/ ParseLine
    \/ StoreEntry
    \/ ConnectionLost

SpecParse == InitParse /\ [][NextParse]_vars

\* ------------------------------------------- the processors and their app
\* The pipeline variables while only the processors run.
PipelineIdle ==
    /\ processed_files = {}
    /\ durable = <<>>
    /\ connection = "none"
    /\ summaryRows = {}
    /\ pc = "app"
    /\ available = <<>>
    /\ new_logs = <<>>
    /\ fileIdx = 0
    /\ stats = ZeroStats
    /\ fileLen = 0
    /\ linesRead = 0
    /\ storable = 0
    /\ calls = NoCalls
    /\ nonblank = 0
    /\ records = NoRecords
    /\ ev = NoEvent
    /\ fullRuns = [f \in Names |-> 0]
    /\ completed = {}
    /\ cycles = 0
    /\ restarts = 0
    /\ appendFailed = FALSE
    /\ Untouched

InitApp == PipelineIdle /\ scope = "app"

\* The exploration that follows one package through the OGS tables.
InitOgs == PipelineIdle /\ scope = "ogs"

\* What process_data's inserts returned and the package's rows are kept
\* where the package is followed.
PackageKept == scope = "ogs"

pipelineVars ==
    << processed_files, durable, connection, summaryRows, pc, available, new_logs,
       fileIdx, stats, fileLen, linesRead, storable, calls, nonblank, records, ev,
       fullRuns, completed, cycles, restarts, appendFailed, scope, tableVars,
       directVars, rerunVars, serverVars, simVars >>

\* The process is alive: daemon threads run until the main thread exits.
Alive == mainpc # "exited"

\* A loop that ends when process_data raises.
Uncaught == "done"

\* Where an exception raised by process_data goes: the except Exception
\* handler of the loop in run().
Caught == "except"

\* What run() does when its first connect_db returns False: it returns.
RunWithoutDatabase == "done"

\* db_conn.close() on whatever connection object there is.
Closed(conn) == IF conn = "none" THEN "none" ELSE "closed"

\* UnifiedProcessor.start: one daemon thread per processor, then the main
\* thread waits for the shutdown event.
Start ==
    /\ mainpc = "created"
    /\ mainpc' = "waiting"
    /\ wpc' = [p \in Procs |-> "start"]
    /\ UNCHANGED << running, db_conn, attempt, caller, insertStep, pd_success,
                    processed_packages, caught, stopIdx, stopPhase, shutdown_event >>
    /\ UNCHANGED << pipelineVars, ogsVars >>

\* run(): self.running = True, then connect_db().
RunStart(p) ==
    /\ Alive
    /\ wpc[p] = "start"
    /\ running' = [running EXCEPT ![p] = TRUE]
    /\ attempt' = [attempt EXCEPT ![p] = 0]
    /\ caller' = [caller EXCEPT ![p] = "run"]
    /\ wpc' = [wpc EXCEPT ![p] = "connect"]
    /\ UNCHANGED << db_conn, insertStep, pd_success, processed_packages, caught,
                    mainVars >>
    /\ UNCHANGED << pipelineVars, ogsVars >>

\* Rows of one package counted per table.
MaxOgsRows == 2

\* success = insert(...) in place of success &= insert(...).
AndAssignOverwrites(success, result) == result

\* success &= insert(...): process_data's success after one more insert.
AndAssign(success, result) == success /\ result

\* The three inserts after the one at index i: the next one, or
\* insert_alerts.
AfterInsert(i) == IF i < Len(InsertSteps) THEN "ensure" ELSE "alerts"

\* One attempt of connect_db: the old connection is closed, then
\* mysql.connector.connect is called. It returns True on a connected
\* connection; an Error is followed by the retry delay unless the attempt was
\* the last; a connection that is not connected goes to the next attempt at
\* once. After max_retries attempts connect_db returns False: run() returns,
\* an insert returns False. The locals of a call that has returned (attempt;
\* success and the insert index of process_data) are back at their initial
\* values.
ConnectAttempt(p) ==
    /\ Alive
    /\ wpc[p] = "connect"
    /\ attempt[p] < max_retries
    /\ \E outcome \in ConnectOutcomes :
         LET last == attempt[p] + 1 = max_retries
             failed == IF caller[p] = "run" THEN RunWithoutDatabase
                       ELSE AfterInsert(insertStep[p])
         IN
         /\ db_conn' = [db_conn EXCEPT ![p] =
                          IF outcome = "ok" THEN "open"
                          ELSE IF outcome = "error" THEN Closed(db_conn[p])
                          ELSE "closed"]
         /\ attempt' = [attempt EXCEPT ![p] =
                          IF outcome = "ok" \/ last THEN 0 ELSE @ + 1]
         /\ wpc' = [wpc EXCEPT ![p] =
                      IF outcome = "ok"
                      THEN (IF caller[p] = "run" THEN "check" ELSE "execute")
                      ELSE IF last THEN failed
                      ELSE IF outcome = "error" THEN "backoff"
                      ELSE "connect"]
         /\ pd_success' = [pd_success EXCEPT ![p] =
                             IF outcome # "ok" /\ last /\ caller[p] = "insert"
                             THEN AndAssign(@, FALSE) ELSE @]
         /\ returned' = IF PackageKept /\ outcome # "ok" /\ last
                           /\ caller[p] = "insert"
                        THEN Append(returned, FALSE) ELSE returned
         /\ insertStep' = [insertStep EXCEPT ![p] =
                             IF outcome # "ok" /\ last /\ caller[p] = "insert"
                                /\ @ < Len(InsertSteps)
                             THEN @ + 1 ELSE @]
    /\ UNCHANGED << running, caller, processed_packages, caught, mainVars >>
    /\ UNCHANGED << pipelineVars, ogs_rows >>

\* time.sleep(retry_delay) between two attempts.
Backoff(p) ==
    /\ Alive
    /\ wpc[p] = "backoff"
    /\ wpc' = [wpc EXCEPT ![p] = "connect"]
    /\ UNCHANGED << running, db_conn, attempt, caller, insertStep, pd_success,
                    processed_packages, caught, mainVars >>
    /\ UNCHANGED << pipelineVars, ogsVars >>

\* while self.running: the next cycle, or the end of the loop.
LoopCheck(p) ==
    /\ Alive
    /\ wpc[p] = "check"
    /\ wpc' = [wpc EXCEPT ![p] = IF running[p] THEN "cycle" ELSE "final"]
    /\ UNCHANGED << running, db_conn, attempt, caller, insertStep, pd_success,
                    processed_packages, caught, mainVars >>
    /\ UNCHANGED << pipelineVars, ogsVars >>

\* What fetch_latest_package and the lines after it can do: no package (a
\* RequestException, caught), an exception that is not a RequestException
\* (a body that is not JSON, or not an object), or the package.
FetchOutcomes == { "none", "raises", "package" }

\* KeyPoolProcessor.process_data (a counter), and the start of
\* OGSProcessor.process_data: fetch_latest_package and the check against
\* processed_packages.
ProcessData(p) ==
    /\ Alive
    /\ wpc[p] = "cycle"
    /\ IF p = "keypool"
       THEN /\ wpc' = [wpc EXCEPT ![p] = "sleep"]
            /\ UNCHANGED << insertStep, pd_success >>
       ELSE \E fetched \in FetchOutcomes :
              /\ wpc' = [wpc EXCEPT ![p] =
                           IF fetched = "none" THEN "sleep"
                           ELSE IF fetched = "raises" THEN "raised"
                           ELSE IF Package \in processed_packages THEN "sleep"
                           ELSE "ensure"]
              /\ insertStep' = [insertStep EXCEPT ![p] = 1]
              /\ pd_success' = [pd_success EXCEPT ![p] = TRUE]
    /\ returned' = IF p = "ogs" THEN <<>> ELSE returned
    /\ UNCHANGED << running, db_conn, attempt, caller, processed_packages, caught,
                    mainVars >>
    /\ UNCHANGED << pipelineVars, ogs_rows >>

\* ensure_connection at the head of insert_environment, insert_link and
\* insert_summary: True on a connected connection, connect_db() otherwise.
EnsureConnection(p) ==
    /\ Alive
    /\ wpc[p] = "ensure"
    /\ IF db_conn[p] = "open"
       THEN /\ wpc' = [wpc EXCEPT ![p] = "execute"]
            /\ UNCHANGED << attempt, caller >>
       ELSE /\ wpc' = [wpc EXCEPT ![p] = "connect"]
            /\ attempt' = [attempt EXCEPT ![p] = 0]
            /\ caller' = [caller EXCEPT ![p] = "insert"]
    /\ UNCHANGED << running, db_conn, insertStep, pd_success, processed_packages,
                    caught, mainVars >>
    /\ UNCHANGED << pipelineVars, ogsVars >>

\* The try block of insert_environment, insert_link and insert_summary:
\* cursor, execute, close; any exception gives False. The connection is in
\* autocommit mode: an execute that succeeds has stored its row. The
\* environment and the link statements are plain INSERTs, each adding a row;
\* on a table whose schema rejects the second row of a package the execute
\* fails, which is the outcome False.
Execute(p) ==
    /\ Alive
    /\ wpc[p] = "execute"
    /\ LET t == InsertSteps[insertStep[p]]
           counted == t \in DOMAIN ogs_rows
           outcomes == IF db_conn[p] # "open" THEN { FALSE }
                       ELSE IF counted /\ ogs_rows[t] >= MaxOgsRows THEN { FALSE }
                       ELSE BOOLEAN
       IN
       \E ok \in outcomes :
         /\ pd_success' = [pd_success EXCEPT ![p] = AndAssign(@, ok)]
         /\ returned' = IF PackageKept THEN Append(returned, ok) ELSE returned
         /\ ogs_rows' = IF PackageKept /\ counted /\ ok
                        THEN [ogs_rows EXCEPT ![t] = @ + 1] ELSE ogs_rows
    /\ wpc' = [wpc EXCEPT ![p] = AfterInsert(insertStep[p])]
    /\ insertStep' = [insertStep EXCEPT ![p] =
                        IF @ < Len(InsertSteps) THEN @ + 1 ELSE @]
    /\ UNCHANGED << running, db_conn, attempt, caller, processed_packages, caught,
                    mainVars >>
    /\ UNCHANGED pipelineVars

\* insert_alerts (no ensure_connection) and the end of process_data: no
\* alert; an alert stored; an alert whose insert fails and is rolled back;
\* on a connection that is not open the rollback raises too. A package
\* whose inserts all returned True is added to processed_packages.
InsertAlerts(p) ==
    /\ Alive
    /\ wpc[p] = "alerts"
    /\ \E alerts \in BOOLEAN, ok \in BOOLEAN :
         LET raises == alerts /\ db_conn[p] # "open"
             stored == ~alerts \/ ok
             result == AndAssign(pd_success[p], stored)
         IN
         /\ wpc' = [wpc EXCEPT ![p] = IF raises THEN "raised" ELSE "sleep"]
         /\ pd_success' = [pd_success EXCEPT ![p] = TRUE]
         /\ insertStep' = [insertStep EXCEPT ![p] = 1]
         /\ processed_packages' =
              IF ~raises /\ result THEN processed_packages \cup { Package }
              ELSE processed_packages
         /\ returned' = IF PackageKept /\ ~raises THEN Append(returned, stored)
                        ELSE returned
    /\ UNCHANGED << running, db_conn, attempt, caller, caught, mainVars >>
    /\ UNCHANGED << pipelineVars, ogs_rows >>

\* time.sleep(interval) at the end of a cycle that raised nothing.
Sleep(p) ==
    /\ Alive
    /\ wpc[p] = "sleep"
    /\ wpc' = [wpc EXCEPT ![p] = "check"]
    /\ caught' = [caught EXCEPT ![p] = FALSE]
    /\ returned' = IF p = "ogs" THEN <<>> ELSE returned
    /\ UNCHANGED << running, db_conn, attempt, caller, insertStep, pd_success,
                    processed_packages, mainVars >>
    /\ UNCHANGED << pipelineVars, ogs_rows >>

\* An exception leaves process_data.
Catch(p) ==
    /\ Alive
    /\ wpc[p] = "raised"
    /\ wpc' = [wpc EXCEPT ![p] = Caught]
    /\ caught' = [caught EXCEPT ![p] = TRUE]
    /\ returned' = IF p = "ogs" THEN <<>> ELSE returned
    /\ UNCHANGED << running, db_conn, attempt, caller, insertStep, pd_success,
                    processed_packages, mainVars >>
    /\ UNCHANGED << pipelineVars, ogs_rows >>

\* The except handler: log, time.sleep(interval).
SleepAfterError(p) ==
    /\ Alive
    /\ wpc[p] = "except"
    /\ wpc' = [wpc EXCEPT ![p] = "check"]
    /\ UNCHANGED << running, db_conn, attempt, caller, insertStep, pd_success,
                    processed_packages, caught, mainVars >>
    /\ UNCHANGED << pipelineVars, ogsVars >>

\* After the loop: disconnect_db, and run() returns.
Final(p) ==
    /\ Alive
    /\ wpc[p] = "final"
    /\ db_conn' = [db_conn EXCEPT ![p] = Closed(@)]
    /\ wpc' = [wpc EXCEPT ![p] = "done"]
    /\ UNCHANGED << running, attempt, caller, insertStep, pd_success,
                    processed_packages, caught, mainVars >>
    /\ UNCHANGED << pipelineVars, ogsVars >>

\* The server or the network drops a processor's connection.
DbLost(p) ==
    /\ Alive
    /\ db_conn[p] = "open"
    /\ db_conn' = [db_conn EXCEPT ![p] = "closed"]
    /\ UNCHANGED << running, wpc, attempt, caller, insertStep, pd_success,
                    processed_packages, caught, mainVars >>
    /\ UNCHANGED << pipelineVars, ogsVars >>

\* SIGINT or SIGTERM while the main thread waits: _handle_shutdown sets the
\* event and calls stop().
Signal ==
    /\ mainpc = "waiting"
    /\ shutdown_event' = TRUE
    /\ mainpc' = "handler"
    /\ stopIdx' = 1
    /\ stopPhase' = "flag"
    /\ UNCHANGED workerVars
    /\ UNCHANGED << pipelineVars, ogsVars >>

\* The main thread is inside UnifiedProcessor.stop, called by the signal
\* handler or by the finally clause of start().
Stopping == mainpc \in { "handler", "finally" }

\* BaseProcessor.stop, first statement: self.running = False.
StopFlag ==
    /\ Stopping
    /\ stopPhase = "flag"
    /\ running' = [running EXCEPT ![ProcessorOrder[stopIdx]] = FALSE]
    /\ stopPhase' = "close"
    /\ UNCHANGED << db_conn, wpc, attempt, caller, insertStep, pd_success,
                    processed_packages, caught, mainpc, stopIdx, shutdown_event >>
    /\ UNCHANGED << pipelineVars, ogsVars >>

\* BaseProcessor.stop, second statement: disconnect_db(). After the last
\* processor stop() returns: the handler returns into wait(), which returns
\* because the event is set, and the finally clause calls stop() again.
StopClose ==
    /\ Stopping
    /\ stopPhase = "close"
    /\ db_conn' = [db_conn EXCEPT ![ProcessorOrder[stopIdx]] = Closed(@)]
    /\ stopPhase' = "flag"
    /\ IF stopIdx < Len(ProcessorOrder)
       THEN /\ stopIdx' = stopIdx + 1
            /\ mainpc' = mainpc
       ELSE /\ stopIdx' = 1
            /\ mainpc' = IF mainpc = "handler" THEN "finally" ELSE "stopped"
    /\ UNCHANGED << running, wpc, attempt, caller, insertStep, pd_success,
                    processed_packages, caught, shutdown_event >>
    /\ UNCHANGED << pipelineVars, ogsVars >>

\* After the second stop(): start() and main() return and the process exits,
\* which ends the daemon threads wherever they are.
Exit ==
    /\ mainpc = "stopped"
    /\ mainpc' = "exited"
    /\ UNCHANGED << workerVars, stopIdx, stopPhase, shutdown_event >>
    /\ UNCHANGED << pipelineVars, ogsVars >>

\* One step of the worker thread of processor p.
Worker(p) ==
    \/ RunStart(p)
    \/ ConnectAttempt(p)
    \/ Backoff(p)
    \/ LoopCheck(p)
    \/ ProcessData(p)
    \/ EnsureConnection(p)
    \/ Execute(p)
    \/ InsertAlerts(p)
    \/ Sleep(p)
    \/ Catch(p)
    \/ SleepAfterError(p)
    \/ Final(p)

NextApp ==
    \/ Start
    \/ Signal
    \/ StopFlag
    \/ StopClose
    \/ Exit
    \/ \E p \in Procs : Worker(p)
    \/ \E p \in Procs : DbLost(p)

SpecApp == InitApp /\ [][NextApp]_vars

\* The threads are scheduled and every sleep, request and connection attempt
\* returns (each has a timeout): a worker that can step does step.
SpecAppFair == SpecApp /\ \A p \in Procs : WF_vars(Worker(p))

SpecOgs == InitOgs /\ [][NextApp]_vars

\* ------------------------------------------------ the catalog on its own
\* What the file system answers when the durable list is opened for
\* reading: it does not exist, it is read, or it exists and cannot be read
\* (permissions, a directory, bytes that are not UTF-8).
CatalogAccess == { "missing", "ok", "denied" }

\* LogDownloader.__init__ -> _load_processed_files: the empty set when
\* os.path.exists is false; otherwise open() and the read, whose OSError or
\* UnicodeDecodeError nothing catches.
LoadCatalog(access, lines) ==
    IF access = "missing" THEN [exc |-> "none", processed |-> {}]
    ELSE IF access = "denied" THEN [exc |-> "OSError", processed |-> {}]
    ELSE [exc |-> "none", processed |-> LoadProcessedFiles(lines)]

\* A process starts (possibly after the previous one was killed at any
\* point) and constructs its LogDownloader. A constructor that raises leaves
\* no downloader.
Construct ==
    /\ scope = "catalog"
    /\ \E access \in CatalogAccess :
         LET r == LoadCatalog(access, durable) IN
         /\ access = "missing" => durable = <<>>
         /\ processed_files' = r.processed
         /\ pc' = IF r.exc = "none" THEN "direct" ELSE "unconstructed"
         /\ ev' = Event("__init__", None, r.exc, "none", BlankLine, "none", NoWrite,
                        access)
    /\ UNCHANGED << durable, connection, summaryRows, available, new_logs, fileIdx,
                    stats, fileLen, linesRead, storable, calls, nonblank, records,
                    fullRuns, completed, cycles, restarts, appendFailed, scope >>
    /\ UNCHANGED << tableVars, directVars, rerunVars, appVars >>

\* mark_as_processed up to the end of its with block: the line is appended,
\* or OSError leaves the call.
MarkAppend ==
    /\ scope = "catalog"
    /\ pc = "direct"
    /\ Len(durable) < MaxCatalogLines
    /\ \E filename \in Names, appendOk \in BOOLEAN :
         LET m == MarkAsProcessed(filename, durable, processed_files, appendOk) IN
         /\ durable' = m.lines
         /\ pc' = IF appendOk THEN "appended" ELSE "direct"
         /\ ev' = Event("mark_as_processed", filename, m.exc, "none", BlankLine,
                        "none", NoWrite, connection)
    /\ UNCHANGED << processed_files, connection, summaryRows, available, new_logs,
                    fileIdx, stats, fileLen, linesRead, storable, calls, nonblank,
                    records, fullRuns, completed, cycles, restarts, appendFailed,
                    scope >>
    /\ UNCHANGED << tableVars, directVars, rerunVars, appVars >>

\* mark_as_processed, last statement: self.processed_files.add(filename).
MarkAdd ==
    /\ scope = "catalog"
    /\ pc = "appended"
    /\ processed_files' =
         MarkAsProcessed(ev.file, durable, processed_files, TRUE).processed
    /\ pc' = "direct"
    /\ ev' = [ev EXCEPT !.value = "returned"]
    /\ UNCHANGED << durable, connection, summaryRows, available, new_logs, fileIdx,
                    stats, fileLen, linesRead, storable, calls, nonblank, records,
                    fullRuns, completed, cycles, restarts, appendFailed, scope >>
    /\ UNCHANGED << tableVars, directVars, rerunVars, appVars >>

\* No process yet, no durable list.
InitCatalog ==
    /\ processed_files = {}
    /\ durable = <<>>
    /\ connection = "none"
    /\ summaryRows = {}
    /\ pc = "unconstructed"
    /\ available = <<>>
    /\ new_logs = <<>>
    /\ fileIdx = 0
    /\ stats = ZeroStats
    /\ fileLen = 0
    /\ linesRead = 0
    /\ storable = 0
    /\ calls = NoCalls
    /\ nonblank = 0
    /\ records = NoRecords
    /\ ev = NoEvent
    /\ fullRuns = [f \in Names |-> 0]
    /\ completed = {}
    /\ cycles = 0
    /\ restarts = 0
    /\ appendFailed = FALSE
    /\ scope = "catalog"
    /\ Untouched

NextCatalog ==
    \/ Construct
    \/ MarkAppend
    \/ MarkAdd

SpecCatalog == InitCatalog /\ [][NextCatalog]_vars

\* ------------------------------------------------- timestamps on their own
\* A timestamp token as the writes read it: the local date-time (an instant
\* named by a number), whether it carries fractional seconds, and its UTC
\* offset suffix: sign "+" or "-" with the offset in minutes, or "" for none.
Timestamps ==
    [local : { 1, 2 }, frac : BOOLEAN, sign : { "+", "-", "" },
     offset : { 0, 330 }]

\* timestamp_str.split('+')[0]: the text before the first '+'.
SplitPlus(t) == IF t.sign = "+" THEN [t EXCEPT !.sign = "", !.offset = 0] ELSE t

\* datetime.strptime(s, '%Y-%m-%dT%H:%M:%S.%f'): the naive date-time of a
\* text that is a date-time with fractional seconds and nothing else;
\* ValueError otherwise. No offset is read, so none is applied.
Strptime(s) ==
    IF s.frac /\ s.sign = "" THEN [exc |-> "none", value |-> s.local]
    ELSE [exc |-> "ValueError", value |-> None]

\* What a write makes of its timestamp_str argument.
ConvertTimestamp(t) == Strptime(SplitPlus(t))

\* The token as the lines of the other specifications class it: "plus" when
\* the conversion succeeds, "minus" for a well-formed token with a negative
\* offset, "bad" otherwise.
TsClass(t) ==
    IF ConvertTimestamp(t).exc = "none" THEN "plus"
    ELSE IF t.frac /\ t.sign = "-" THEN "minus"
    ELSE "bad"

\* One insert_key_creation call with a timestamp token.
InsertWithTimestamp ==
    /\ pc = "direct"
    /\ scope = "timestamp"
    /\ \E t \in Timestamps :
       \E outcome \in OutcomesFor(connection) :
       \E fault \in FaultsFor(connection, outcome) :
         LET w == DbWrite("insert_key_creation", TsClass(t), connection, outcome, fault)
             values == [DefaultValues EXCEPT !.at = ConvertTimestamp(t).value]
             log_file == <<"a", ".log">>
         IN
         /\ connection' = w.conn
         /\ args' = [op |-> "insert_key_creation",
                     row |-> KeyCreationRow(values, log_file),
                     given |-> t]
         /\ key_creations' = IF w.stored
                             THEN WriteKeyCreation(key_creations, values, log_file)
                             ELSE key_creations
         /\ ev' = Event("insert_key_creation", log_file, w.exc, ResultOf(w),
                        BlankLine, "insert_key_creation", w, connection)
    /\ UNCHANGED << processed_files, durable, summaryRows, pc, available, new_logs,
                    fileIdx, stats, fileLen, linesRead, storable, calls, nonblank,
                    records, fullRuns, completed, cycles, restarts, appendFailed,
                    scope, metrics, summaries, parsed, remembered, rerunVars, appVars >>

InitTimestamp ==
    /\ processed_files = {}
    /\ durable = <<>>
    /\ connection \in ConnStates
    /\ summaryRows = {}
    /\ pc = "direct"
    /\ available = <<>>
    /\ new_logs = <<>>
    /\ fileIdx = 0
    /\ stats = ZeroStats
    /\ fileLen = 0
    /\ linesRead = 0
    /\ storable = 0
    /\ calls = NoCalls
    /\ nonblank = 0
    /\ records = NoRecords
    /\ ev = NoEvent
    /\ fullRuns = [f \in Names |-> 0]
    /\ completed = {}
    /\ cycles = 1
    /\ restarts = 0
    /\ appendFailed = FALSE
    /\ scope = "timestamp"
    /\ Untouched

NextTimestamp ==
    \/ InsertWithTimestamp
    \/ ConnectionLost

SpecTimestamp == InitTimestamp /\ [][NextTimestamp]_vars

\* ------------------------------------------------------- the log server
\* An absolute path is the sequence of its components, a component the
\* sequence of the pieces of its name, so that "logs" is a proper prefix of
\* "logs_old" as a string.
DotDot == << ".." >>
Root == << <<"var">>, <<"logs">> >>

\* config.LOG_OUTPUT_DIR is /var/logs. The regular files the host may hold:
\* /var/logs/a.log, /var/logs/sub/b.log, /var/logs_old/s.log, /etc/passwd.
CandidateFiles ==
    { Root \o << <<"a", ".log">> >>,
      Root \o << <<"sub">>, <<"b", ".log">> >>,
      << <<"var">>, <<"logs", "_old">>, <<"s", ".log">> >>,
      << <<"etc">>, <<"passwd">> >> }

\* The text after '/logs/' of the request path, as Path() reads it: absolute
\* or not, and its components.
RequestNames ==
    { [abs |-> FALSE, parts |-> << <<"a", ".log">> >>],
      [abs |-> FALSE, parts |-> << <<"x", ".log">> >>],
      [abs |-> FALSE, parts |-> << <<"sub">>, <<"b", ".log">> >>],
      [abs |-> FALSE, parts |-> << <<"sub">> >>],
      [abs |-> FALSE, parts |-> << >>],
      [abs |-> FALSE, parts |-> << DotDot, <<"logs">>, <<"a", ".log">> >>],
      [abs |-> FALSE, parts |-> << DotDot, <<"logs", "_old">>, <<"s", ".log">> >>],
      [abs |-> FALSE, parts |-> << DotDot, DotDot, <<"etc">>, <<"passwd">> >>],
      [abs |-> TRUE, parts |-> << <<"etc">>, <<"passwd">> >>],
      [abs |-> TRUE, parts |-> << <<"var">>, <<"logs", "_old">>, <<"s", ".log">> >>] }

\* Path(config.LOG_OUTPUT_DIR) / filename: an absolute right operand
\* replaces the left one.
Join(base, name) == IF name.abs THEN name.parts ELSE base \o name.parts

\* Path.resolve(): ".." components are folded away (the parent of the root
\* directory is the root directory).
RECURSIVE Resolve(_, _)
Resolve(done, rest) ==
    IF rest = << >> THEN done
    ELSE IF Head(rest) = DotDot
    THEN Resolve(IF done = << >> THEN << >> ELSE SubSeq(done, 1, Len(done) - 1),
                 Tail(rest))
    ELSE Resolve(Append(done, Head(rest)), Tail(rest))

\* str(path): every component behind a "/".
RECURSIVE Str(_)
Str(path) ==
    IF path = << >> THEN << >>
    ELSE << "/" >> \o Head(path) \o Str(Tail(path))

\* text.startswith(prefix)
StartsWith(text, prefix) ==
    /\ Len(prefix) <= Len(text)
    /\ SubSeq(text, 1, Len(prefix)) = prefix

\* The check of _handle_download_log: the resolved path, as a string, starts
\* with the resolved log directory, as a string.
Allowed(path) == StartsWith(Str(path), Str(Resolve(<< >>, Root)))

\* _handle_download_log and _serve_file: 403 when the check fails, 404 when
\* the resolved path is no regular file, otherwise 200 with the content of
\* the file (named here by its path), or 500 when reading it fails.
HandleDownloadLog ==
    /\ scope = "server"
    /\ \E name \in RequestNames, readOk \in BOOLEAN :
         LET filepath == Resolve(<< >>, Join(Root, name)) IN
         response' =
             IF ~Allowed(filepath)
             THEN [request |-> name, status |-> 403, body |-> None]
             ELSE IF filepath \notin files
             THEN [request |-> name, status |-> 404, body |-> None]
             ELSE IF readOk
             THEN [request |-> name, status |-> 200, body |-> filepath]
             ELSE [request |-> name, status |-> 500, body |-> None]
    /\ UNCHANGED << files, workerVars, mainVars, ogsVars, simVars >>
    /\ UNCHANGED << processed_files, durable, connection, summaryRows, pc, available,
                    new_logs, fileIdx, stats, fileLen, linesRead, storable, calls,
                    nonblank, records, ev, fullRuns, completed, cycles, restarts,
                    appendFailed, scope, tableVars, directVars, rerunVars >>

InitServer ==
    /\ processed_files = {}
    /\ durable = <<>>
    /\ connection = "none"
    /\ summaryRows = {}
    /\ pc = "server"
    /\ available = <<>>
    /\ new_logs = <<>>
    /\ fileIdx = 0
    /\ stats = ZeroStats
    /\ fileLen = 0
    /\ linesRead = 0
    /\ storable = 0
    /\ calls = NoCalls
    /\ nonblank = 0
    /\ records = NoRecords
    /\ ev = NoEvent
    /\ fullRuns = [f \in Names |-> 0]
    /\ completed = {}
    /\ cycles = 0
    /\ restarts = 0
    /\ appendFailed = FALSE
    /\ scope = "server"
    /\ key_creations = {}
    /\ metrics = EmptyBag
    /\ summaries = {}
    /\ parsed = NoParse
    /\ remembered = NoParse
    /\ args = NoArgs
    /\ content = <<>>
    /\ snapshot = NoSnapshot
    /\ second = FALSE
    /\ running = [p \in Procs |-> FALSE]
    /\ db_conn = [p \in Procs |-> "none"]
    /\ wpc = [p \in Procs |-> "idle"]
    /\ attempt = [p \in Procs |-> 0]
    /\ caller = [p \in Procs |-> "run"]
    /\ insertStep = [p \in Procs |-> 1]
    /\ pd_success = [p \in Procs |-> TRUE]
    /\ processed_packages = {}
    /\ caught = [p \in Procs |-> FALSE]
    /\ mainpc = "created"
    /\ stopIdx = 1
    /\ stopPhase = "flag"
    /\ shutdown_event = FALSE
    /\ files \in SUBSET CandidateFiles
    /\ response = NoResponse
    /\ returned = <<>>
    /\ ogs_rows = [t \in { "environment", "link" } |-> 0]
    /\ simulator = NoSimulator
    /\ log_lines = <<>>

NextServer == HandleDownloadLog

SpecServer == InitServer /\ [][NextServer]_vars

\* ---------------------------------------------- the simulator's lines
\* A line of text is a sequence of atoms: a space, a punctuation mark, a
\* digit, or a run of other characters that no marker and no regular
\* expression of parse_log_entry divides.
DigitChars == << "0", "1", "2", "3", "4", "5", "6", "7", "8", "9" >>
Digits == { DigitChars[i] : i \in 1..Len(DigitChars) }

RECURSIVE Decimal(_)
Decimal(n) ==
    IF n < 10 THEN << DigitChars[n + 1] >>
    ELSE Decimal(n \div 10) \o << DigitChars[(n % 10) + 1] >>

RECURSIVE Grouped(_)
Grouped(n) ==
    IF n < 1000 THEN Decimal(n)
    ELSE Grouped(n \div 1000)
           \o << ",", DigitChars[((n % 1000) \div 100) + 1],
                 DigitChars[((n % 100) \div 10) + 1], DigitChars[(n % 10) + 1] >>

\* An integer in an f-string with the format {n:,}.
FormatGrouped(n) == IF n < 0 THEN << "-" >> \o Grouped(-n) ELSE Grouped(n)

\* An integer in an f-string, {n}: its decimal digits, after a minus sign
\* when it is negative.
Format(n) == IF n < 0 THEN << "-" >> \o Decimal(-n) ELSE Decimal(n)

\* int() of a run of digits.
RECURSIVE IntOf(_)
IntOf(run) ==
    IF run = <<>> THEN 0
    ELSE 10 * IntOf(SubSeq(run, 1, Len(run) - 1))
           + (CHOOSE d \in 0..9 : DigitChars[d + 1] = run[Len(run)])

\* The pieces with one space between each two.
RECURSIVE Sentence(_)
Sentence(pieces) ==
    IF pieces = <<>> THEN <<>>
    ELSE IF Len(pieces) = 1 THEN pieces[1]
    ELSE pieces[1] \o << " " >> \o Sentence(Tail(pieces))

\* datetime.utcnow().strftime('%Y-%m-%dT%H:%M:%S.%f')[:-3] + '+0000'.
TimestampText == << "2025-01-01T00:00:00.000+0000" >>

\* config.SITE_ID = int(os.getenv('SITE_ID', 100)), config.SOURCE_SITES,
\* config.KEY_POOL_TYPES; uuid4 strings; random.randint(1, 10),
\* random.randint(50, 150); the batch sizes generate_metric_entry is given.
ConfiguredSiteIds == { -1, 0, 100 }
SOURCE_SITES == { 101, 102, 103 }
KEY_POOL_TYPES == { "PUBLIC", "PRIVATE", "SHARED" }
Uuids == { "a1b2c3d4-e5f6-7890-abcd-ef1234567890" }
Workers == { 1, 10 }
Latencies == { 50, 150 }
KeyCounts == { 0, 30 }

\* random.randint(477000, 478000), and the entries generated after it.
FirstSequenceNumber == 477000
MaxEntries == 2

\* "{timestamp} SiteId: {site_id}  INFO 26 [{thread}-{n}] {logger}      : ".
Header(site_id, thread, n, logger) ==
    Sentence(<< TimestampText, << "SiteId:" >>, Format(site_id) \o << " " >>,
                << "INFO" >>, Format(26),
                << thread >> \o Format(n) \o << "]" >>,
                logger \o [i \in 1..13 |-> " "] \o << ":" >> >>) \o << " " >>

NoValues == [f \in DOMAIN DefaultValues |-> None]

GeneratedLine(kind, site_id, values, text) ==
    [kind |-> kind, site_id |-> site_id, values |-> values, text |-> text]

\* generate_log_entry.
KeyCreationText(site_id, n, key_identity, sequence_number, source_site, key_pool_type) ==
    Header(site_id, "[quartzScheduler_Worker-", n,
           << "c.e.q.k.k.", "KeyPoolServiceImpl" >>)
    \o Sentence(<< << "createKey", ":" >>, << "KeyPoolService" >>,
                   << "successfully" >>, << "created" >>, << "key" >>, << "with" >>,
                   << "identity" >>, << "=" >>, << "'", key_identity, "'", "," >>,
                   << "sequence" >>, << "number" >>,
                   Format(sequence_number) \o << "," >>,
                   << "and" >>, << "KeyPool" >>, << "{", "Source" >>, << "site" >>,
                   << "identity" >>, << "=" >>,
                   << "'" >> \o Format(source_site) \o << "'", "," >>,
                   << "Destination" >>, << "site" >>, << "identity" >>, << "=" >>,
                   << "'" >> \o Format(site_id) \o << "'", "," >>,
                   << "and" >>, << "KeyPoolType" >>, << "name" >>, << "=" >>,
                   << "'", key_pool_type, "'", "}" >> >>)

\* generate_metric_entry, the sync-latency line.
SyncLatencyText(site_id, n, latency_ms) ==
    Header(site_id, "[quartzScheduler_Worker-", n,
           << "c.e.q.k.k.", "KeySyncServiceImpl" >>)
    \o Sentence(<< << "METRIC_KEY_SYNC_LATENCY" >>,
                   << "MS", "=" >> \o Format(latency_ms) >>)

\* generate_metric_entry, the key-count line.
KeyCountText(site_id, n, bits, key_count) ==
    Header(site_id, "[quartzScheduler_Worker-", n,
           << "c.e.q.k.k.", "KeySyncServiceImpl" >>)
    \o Sentence(<< << "METRIC_RECEIVED_PUBLIC_KEY_COUNT" >>,
                   << "BITS", "=" >> \o Format(bits),
                   << "KEYS", "=" >> \o Format(key_count) >>)

\* generate_controller_entry.
ControllerText(site_id, n, remote_site) ==
    Header(site_id, "[https-jsse-nio-9500-exec-", n,
           << "c.e.q.k.k.w.", "KeyPoolController" >>)
    \o Sentence(<< << "Handling" >>, << "qnl" >>, << "db" >>, << "sync" >>,
                   << "with" >>, << "remote" >>, << "site" >>, Format(remote_site) >>)

\* The pattern stands in the text at position i.
At(text, i, pattern) ==
    /\ i + Len(pattern) - 1 <= Len(text)
    /\ \A j \in 1..Len(pattern) : text[i + j - 1] = pattern[j]

\* 'marker' in line.
Contains(text, pattern) == \E i \in 1..Len(text) : At(text, i, pattern)

\* The length of the longest run of digits at position i.
RunLen(text, i) ==
    CHOOSE n \in 0..(Len(text) - i + 1) :
      /\ \A j \in 0..(n - 1) : text[i + j] \in Digits
      /\ i + n > Len(text) \/ text[i + n] \notin Digits

NoMatch == [found |-> FALSE, group |-> <<>>]

Leftmost(hits) == CHOOSE i \in hits : \A j \in hits : i <= j

\* re.search(prefix + r"(\d+)" + suffix, line): the leftmost match, the
\* group as long as it can be.
SearchDigits(text, prefix, suffix) ==
    LET hits == { i \in 1..Len(text) :
                    /\ At(text, i, prefix)
                    /\ RunLen(text, i + Len(prefix)) > 0
                    /\ At(text, i + Len(prefix) + RunLen(text, i + Len(prefix)),
                          suffix) }
    IN
    IF hits = {} THEN NoMatch
    ELSE LET k == Leftmost(hits) + Len(prefix) IN
         [found |-> TRUE, group |-> SubSeq(text, k, k + RunLen(text, k) - 1)]

\* re.search(prefix + "(" + class + ")" + suffix, line) for a class of
\* whole atoms: the 36 characters [a-f0-9-], or PUBLIC|PRIVATE|SHARED.
SearchAtom(text, prefix, class, suffix) ==
    LET hits == { i \in 1..Len(text) :
                    /\ At(text, i, prefix)
                    /\ i + Len(prefix) <= Len(text)
                    /\ text[i + Len(prefix)] \in class
                    /\ At(text, i + Len(prefix) + 1, suffix) }
    IN
    IF hits = {} THEN NoMatch
    ELSE [found |-> TRUE, group |-> << text[Leftmost(hits) + Len(prefix)] >>]

\* The marker substrings (parser.py:43, 80, 87, 99).
MarkerText(mark) ==
    IF mark = "sequence number" THEN << "sequence", " ", "number" >>
    ELSE IF mark = "remote site" THEN << "remote", " ", "site" >>
    ELSE << mark >>

AllMarkers ==
    UNION { MarkersOf(t) : t \in { "KEY_CREATION", "SYNC_LATENCY", "KEY_COUNT",
                                   "CONTROLLER_SYNC" } }

\* The regular expression of each field (parser.py:47-111).
SearchField(text, field) ==
    IF field = "key_identity"
    THEN SearchAtom(text, << "identity", " ", "=", " ", "'" >>, Uuids, << "'" >>)
    ELSE IF field = "sequence_number"
    THEN SearchDigits(text, << "sequence", " ", "number", " " >>, <<>>)
    ELSE IF field = "source_site"
    THEN SearchDigits(text, << "Source", " ", "site", " ", "identity", " ", "=", " ", "'" >>,
                      << "'" >>)
    ELSE IF field = "dest_site"
    THEN SearchDigits(text,
                      << "Destination", " ", "site", " ", "identity", " ", "=", " ", "'" >>,
                      << "'" >>)
    ELSE IF field = "key_type"
    THEN SearchAtom(text, << "KeyPoolType", " ", "name", " ", "=", " ", "'" >>,
                    { "PUBLIC", "PRIVATE", "SHARED" }, << "'" >>)
    ELSE IF field = "latency_ms" THEN SearchDigits(text, << "MS", "=" >>, <<>>)
    ELSE IF field = "bits" THEN SearchDigits(text, << "BITS", "=" >>, <<>>)
    ELSE IF field = "keys_count" THEN SearchDigits(text, << "KEYS", "=" >>, <<>>)
    ELSE IF field = "local_site" THEN SearchDigits(text, << "SiteId:", " " >>, <<>>)
    ELSE SearchDigits(text, << "remote", " ", "site", " " >>, <<>>)

\* The text as parse_log_entry reads it: the tokens of line.split(), the
\* first token, the markers it contains, the fields whose regular
\* expression matches, and what each match captures (for a numeric field
\* the int() of the captured digits).
Scan(text) ==
    LET starts == { i \in 1..Len(text) :
                      text[i] # " " /\ (i = 1 \/ text[i - 1] = " ") }
        spaces == { i \in 1..Len(text) : text[i] = " " }
        first == IF spaces = {} THEN text ELSE SubSeq(text, 1, Leftmost(spaces) - 1)
        found == { f \in AllFields : SearchField(text, f).found }
    IN
    [blank |-> starts = {},
     ntok5 |-> Cardinality(starts) >= 5,
     ts |-> IF first = TimestampText THEN "plus" ELSE "bad",
     marks |-> { mk \in AllMarkers : Contains(text, MarkerText(mk)) },
     fields |-> found,
     intok |-> TRUE,
     vals |-> [f \in DOMAIN DefaultValues |->
                 IF f = "at" THEN 1
                 ELSE IF f \notin found THEN None
                 ELSE IF f \in NumericFields THEN IntOf(SearchField(text, f).group)
                 ELSE SearchField(text, f).group[1]]]

\* generate_log_entry: the next sequence number and one key-creation line.
\* The lines of one call are parsed before the next call.
GenerateLogEntry ==
    /\ scope = "generate"
    /\ log_lines = <<>>
    /\ simulator.sequence_number < FirstSequenceNumber + MaxEntries
    /\ \E key_identity \in Uuids, source_site \in SOURCE_SITES,
          key_pool_type \in KEY_POOL_TYPES, n \in Workers :
         LET sequence_number == simulator.sequence_number + 1
             site_id == simulator.site_id
         IN
         /\ simulator' = [simulator EXCEPT !.sequence_number = sequence_number]
         /\ log_lines' =
              Append(log_lines,
                     GeneratedLine("KEY_CREATION", site_id,
                                   [NoValues EXCEPT !.key_identity = key_identity,
                                                    !.sequence_number = sequence_number,
                                                    !.source_site = source_site,
                                                    !.dest_site = site_id,
                                                    !.key_type = key_pool_type],
                                   KeyCreationText(site_id, n, key_identity,
                                                   sequence_number, source_site,
                                                   key_pool_type)))
    /\ UNCHANGED << processed_files, durable, connection, summaryRows, pc, available,
                    new_logs, fileIdx, stats, fileLen, linesRead, storable, calls,
                    nonblank, records, ev, fullRuns, completed, cycles, restarts,
                    appendFailed, scope, tableVars, directVars, rerunVars, workerVars,
                    mainVars, serverVars, ogsVars >>

\* generate_metric_entry(key_count): a sync-latency and a key-count line.
GenerateMetricEntry ==
    /\ scope = "generate"
    /\ log_lines = <<>>
    /\ \E key_count \in KeyCounts, latency_ms \in Latencies, n \in Workers :
         LET site_id == simulator.site_id
             bits == key_count * 256
         IN
         log_lines' =
           log_lines \o
             << GeneratedLine("SYNC_LATENCY", site_id,
                              [NoValues EXCEPT !.latency_ms = latency_ms],
                              SyncLatencyText(site_id, n, latency_ms)),
                GeneratedLine("KEY_COUNT", site_id,
                              [NoValues EXCEPT !.bits = bits, !.keys_count = key_count],
                              KeyCountText(site_id, n, bits, key_count)) >>
    /\ UNCHANGED << processed_files, durable, connection, summaryRows, pc, available,
                    new_logs, fileIdx, stats, fileLen, linesRead, storable, calls,
                    nonblank, records, ev, fullRuns, completed, cycles, restarts,
                    appendFailed, scope, tableVars, directVars, rerunVars, workerVars,
                    mainVars, serverVars, ogsVars, simulator >>

\* generate_controller_entry: one controller-sync line.
GenerateControllerEntry ==
    /\ scope = "generate"
    /\ log_lines = <<>>
    /\ \E remote_site \in SOURCE_SITES, n \in Workers :
         LET site_id == simulator.site_id IN
         log_lines' =
           Append(log_lines,
                  GeneratedLine("CONTROLLER_SYNC", site_id,
                                [NoValues EXCEPT !.local_site = site_id,
                                                 !.remote_site = remote_site],
                                ControllerText(site_id, n, remote_site)))
    /\ UNCHANGED << processed_files, durable, connection, summaryRows, pc, available,
                    new_logs, fileIdx, stats, fileLen, linesRead, storable, calls,
                    nonblank, records, ev, fullRuns, completed, cycles, restarts,
                    appendFailed, scope, tableVars, directVars, rerunVars, workerVars,
                    mainVars, serverVars, ogsVars, simulator >>

\* parse_log_entry on the oldest generated line; its text is not kept.
ParseGenerated ==
    /\ scope = "generate"
    /\ log_lines # <<>>
    /\ LET given == Head(log_lines)
           line == Scan(given.text)
       IN
       parsed' = [line |-> line, entry |-> ParseCall(line), called |-> TRUE,
                  given |-> [given EXCEPT !.text = <<>>]]
    /\ log_lines' = Tail(log_lines)
    /\ UNCHANGED << processed_files, durable, connection, summaryRows, pc, available,
                    new_logs, fileIdx, stats, fileLen, linesRead, storable, calls,
                    nonblank, records, ev, fullRuns, completed, cycles, restarts,
                    appendFailed, scope, tableVars, remembered, args, rerunVars,
                    workerVars, mainVars, serverVars, ogsVars, simulator >>

\* KeyPoolLogSimulator.__init__ with the configured site id.
InitGenerate ==
    /\ processed_files = {}
    /\ durable = <<>>
    /\ connection = "none"
    /\ summaryRows = {}
    /\ pc = "generate"
    /\ available = <<>>
    /\ new_logs = <<>>
    /\ fileIdx = 0
    /\ stats = ZeroStats
    /\ fileLen = 0
    /\ linesRead = 0
    /\ storable = 0
    /\ calls = NoCalls
    /\ nonblank = 0
    /\ records = NoRecords
    /\ ev = NoEvent
    /\ fullRuns = [f \in Names |-> 0]
    /\ completed = {}
    /\ cycles = 0
    /\ restarts = 0
    /\ appendFailed = FALSE
    /\ scope = "generate"
    /\ key_creations = {}
    /\ metrics = EmptyBag
    /\ summaries = {}
    /\ parsed = NoParse
    /\ remembered = NoParse
    /\ args = NoArgs
    /\ content = <<>>
    /\ snapshot = NoSnapshot
    /\ second = FALSE
    /\ running = [p \in Procs |-> FALSE]
    /\ db_conn = [p \in Procs |-> "none"]
    /\ wpc = [p \in Procs |-> "idle"]
    /\ attempt = [p \in Procs |-> 0]
    /\ caller = [p \in Procs |-> "run"]
    /\ insertStep = [p \in Procs |-> 1]
    /\ pd_success = [p \in Procs |-> TRUE]
    /\ processed_packages = {}
    /\ caught = [p \in Procs |-> FALSE]
    /\ mainpc = "created"
    /\ stopIdx = 1
    /\ stopPhase = "flag"
    /\ shutdown_event = FALSE
    /\ files = {}
    /\ response = NoResponse
    /\ returned = <<>>
    /\ ogs_rows = [t \in { "environment", "link" } |-> 0]
    /\ simulator \in [site_id : ConfiguredSiteIds,
                      sequence_number : { FirstSequenceNumber }]
    /\ log_lines = <<>>

NextGenerate ==
    \/ GenerateLogEntry
    \/ GenerateMetricEntry
    \/ GenerateControllerEntry
    \/ ParseGenerated

SpecGenerate == InitGenerate /\ [][NextGenerate]_vars

\* ------------------------------------------------------------------ claims
Filenames(logs) == { logs[i].filename : i \in 1..Len(logs) }

\* Every sorted listing of all the files.
FullListing ==
    CHOOSE l \in Listings : Len(l) = Cardinality(Names)

Entries(l) == [i \in 1..Len(l) |-> FileEntry(l[i])]

\* C1: unless an append to the durable list failed, no source file has been
\* run through process_log_file to completion more than once, across
\* cycles, download failures, store failures and restarts.
C1_AtMostOnce ==
    ~appendFailed => \A f \in Names : fullRuns[f] <= 1

\* C2, as stated: a filename that mark_as_processed wrote to the catalog has
\* been scanned to its last line and has its summary row stored.
C2_CatalogImpliesStored ==
    \A f \in Range(durable) : f \in completed /\ f \in summaryRows

\* C2, amended: a filename that mark_as_processed wrote to the catalog has
\* been scanned to its last line by a process_log_file run that then invoked
\* mark_file_processed for it (whose result is not read: the row may be
\* missing).
C2_CatalogImpliesAttempted ==
    \A f \in Range(durable) : f \in completed

C2_Witness ==
    \E f \in Range(durable) : f \in completed /\ f \notin summaryRows

\* C3: once mark_as_processed(f) has completed, no later get_new_logs
\* returns f, in the same process or after a restart.
C3_MarkedStaysExcluded ==
    (ev.op = "get_new_logs" /\ ev.exc = "none")
        => Filenames(new_logs) \cap Range(durable) = {}

\* C4: get_new_logs returns exactly the listed entries whose filename is not
\* in the processed set, in listing order; the full listing with one
\* processed file yields the other two.
C4_NewLogsExact ==
    (ev.op = "get_new_logs" /\ ev.exc = "none") =>
        /\ \A n \in Names :
             FileEntry(n) \in Range(new_logs)
                 <=> (FileEntry(n) \in Range(available) /\ n \notin processed_files)
        /\ Len(new_logs) = Cardinality(Range(new_logs))
        /\ \A i, j \in 1..Len(new_logs) :
             i < j => \E p, q \in 1..Len(available) :
                        /\ p < q
                        /\ available[p] = new_logs[i]
                        /\ available[q] = new_logs[j]
        /\ \A b \in Names :
             (available = Entries(FullListing) /\ processed_files = { b })
                 => new_logs = Entries(SelectSeq(FullListing, LAMBDA n : n # b))

C4_Witness ==
    /\ ev.op = "get_new_logs"
    /\ ev.exc = "none"
    /\ available = Entries(FullListing)
    /\ Cardinality(processed_files) = 1
    /\ Len(new_logs) = 2

FailedCalls ==
    calls["insert_key_creation"].failed + calls["insert_sync_latency"].failed
    + calls["insert_key_count"].failed + calls["insert_controller_sync"].failed

RunRaised == ev.op = "process_log_file" /\ ev.exc # "none"

\* C5: a store insert that returned false does not end the scan: the scan
\* goes on until the last line of the file, the failure is counted in
\* db_errors and the later records are counted by type; one failing
\* KeyCreation and two succeeding metric lines give db_errors 1,
\* sync_latency 1, key_counts 1.
C5_FailureDoesNotAbort ==
    /\ (FailedCalls > 0 /\ ~RunRaised) =>
          /\ pc \in { "scan", "mark" }
          /\ pc = "mark" => linesRead = fileLen
          /\ stats.db_errors >= FailedCalls
    /\ ~RunRaised =>
          /\ stats.key_creations = calls["insert_key_creation"].ok
          /\ stats.sync_latency = calls["insert_sync_latency"].ok
          /\ stats.key_counts = calls["insert_key_count"].ok
          /\ stats.controller_syncs = calls["insert_controller_sync"].ok
    /\ ( /\ pc = "mark"
         /\ fileLen = 3
         /\ calls["insert_key_creation"] = [ok |-> 0, failed |-> 1]
         /\ calls["insert_sync_latency"] = [ok |-> 1, failed |-> 0]
         /\ calls["insert_key_count"] = [ok |-> 1, failed |-> 0] )
       => (stats.db_errors = 1 /\ stats.sync_latency = 1 /\ stats.key_counts = 1)

C5_Witness ==
    /\ pc = "mark"
    /\ fileLen = 3
    /\ calls["insert_key_creation"] = [ok |-> 0, failed |-> 1]
    /\ calls["insert_sync_latency"] = [ok |-> 1, failed |-> 0]
    /\ calls["insert_key_count"] = [ok |-> 1, failed |-> 0]
    /\ stats.db_errors = 1

\* C6: every process_log_file run over a file it could open ends having
\* invoked mark_file_processed once, after the last line, whatever the
\* store calls did.
C6_SummaryOncePerFile ==
    (ev.op = "process_log_file" /\ ev.value # None)
        => (ev.call = "mark_file_processed" /\ linesRead = fileLen)

\* C7: a DatabaseManager write that met a connection or database error
\* returns false and raises nothing, after at most one rollback.
C7_WriteNeverRaises ==
    ev.w.error => (ev.w.exc = "none" /\ ev.w.result = FALSE /\ ev.w.rollbacks <= 1)

\* C8: a failed download_log_file returns (None, 0), raises nothing and
\* leaves the processed set and the durable list as they were, so that the
\* file is still unprocessed and is returned again by the next get_new_logs.
C8_DownloadFailureIsSentinel ==
    [][ ( /\ pc = "download"
          /\ pc' # "download" \/ fileIdx' # fileIdx
          /\ ev'.before # "ok" )
        => ( /\ ev'.exc = "none"
             /\ ev'.value = None
             /\ processed_files' = processed_files
             /\ durable' = durable
             /\ ev'.file \notin processed_files' ) ]_vars

\* C9: get_available_logs returns the empty list and raises nothing for
\* every outcome of the listing request other than a well-formed body.
C9_ListingNeverRaises ==
    (ev.op = "get_new_logs" /\ ev.value # "ok")
        => (ev.exc = "none" /\ available = <<>>)

\* C10: a line of a recognized type whose timestamp cannot be parsed raises
\* nothing out of process_log_file, is not stored, adds to no success
\* counter, and the scan goes on.
C10_BadTimestampDegrades ==
    ( /\ ev.op \in { "line", "process_log_file" }
      /\ ev.call \in Inserts
      /\ ~StrptimeOk(ev.line.ts) )
        => ( /\ ev.exc = "none"
             /\ ~ev.w.stored
             /\ pc = "scan"
             /\ stats.sync_latency = calls["insert_sync_latency"].ok )

\* The insert that matches a record type.
InsertFor(log_type) ==
    IF log_type = "KEY_CREATION" THEN "insert_key_creation"
    ELSE IF log_type = "SYNC_LATENCY" THEN "insert_sync_latency"
    ELSE IF log_type = "KEY_COUNT" THEN "insert_key_count"
    ELSE "insert_controller_sync"

\* A line that parses to a record of a recognized type lacking a field the
\* insert of the type requires.
Incomplete(line) ==
    LET entry == ParseLogEntry(line) IN
    /\ entry.log_type \in RecognizedTypes
    /\ ~(RequiredFields(entry.log_type) \subseteq entry.fields)

\* The step of process_log_file that reads one line.
ReadsLine == pc = "scan" /\ linesRead' = linesRead + 1

SuccessCounters == { "key_creations", "sync_latency", "key_counts", "controller_syncs" }

\* Insert calls of the running process_log_file, the one that raised
\* included.
Invoked(c) ==
    calls[c].ok + calls[c].failed + (IF RunRaised /\ ev.call = c THEN 1 ELSE 0)

\* C11: after process_log_file, db_errors is the number of insert calls of
\* the file that returned false; a record of a recognized type that lacks a
\* required field adds nothing to it.
C11_DbErrorsAreStoreFailures ==
    ~RunRaised => stats.db_errors = FailedCalls

\* C12: a record of a recognized type that lacks a field its insert requires
\* is handed to no insert, reaches the database in no part, and adds to no
\* type counter.
C12_IncompleteNeverStored ==
    [][ (ReadsLine /\ Incomplete(ev'.line))
        => ( /\ ev'.call = "none"
             /\ ev'.w = NoWrite
             /\ calls' = calls
             /\ connection' = connection
             /\ \A c \in SuccessCounters : stats'[c] = stats[c] ) ]_vars

C12_Witness ==
    /\ ev.op = "line"
    /\ Incomplete(ev.line)
    /\ ev.line.fields # {}
    /\ stats.total_lines = 1

\* C13: in one process_log_file pass, the records of each recognized type
\* that have every required field have been handed to the insert of that
\* type once each: the number of calls of an insert is the number of such
\* records read, whatever the calls returned.
C13_EachRecordOnce ==
    \A t \in RecognizedTypes : Invoked(InsertFor(t)) = records[t]

C13_Witness ==
    /\ records["SYNC_LATENCY"] = 2
    /\ records["KEY_COUNT"] = 1
    /\ calls["insert_sync_latency"] = [ok |-> 1, failed |-> 1]
    /\ calls["insert_key_count"] = [ok |-> 1, failed |-> 0]
    /\ ev.op = "line"
    /\ ev.w.result

\* C14: when process_log_file has returned its stats, each type counter is
\* the number of calls of the type's insert that returned true and
\* total_lines is the number of non-blank lines; one KeyCreation, one
\* SyncLatency and one ControllerSync line, all accepted, give 3/1/1/1 with
\* key_counts 0 and unknown 0.
C14_CountersMatchCalls ==
    pc = "mark" =>
        /\ stats.key_creations = calls["insert_key_creation"].ok
        /\ stats.sync_latency = calls["insert_sync_latency"].ok
        /\ stats.key_counts = calls["insert_key_count"].ok
        /\ stats.controller_syncs = calls["insert_controller_sync"].ok
        /\ stats.total_lines = nonblank
        /\ ( /\ fileLen = 3
             /\ calls["insert_key_creation"] = [ok |-> 1, failed |-> 0]
             /\ calls["insert_sync_latency"] = [ok |-> 1, failed |-> 0]
             /\ calls["insert_controller_sync"] = [ok |-> 1, failed |-> 0] )
           => ( /\ stats.total_lines = 3
                /\ stats.key_creations = 1
                /\ stats.sync_latency = 1
                /\ stats.controller_syncs = 1
                /\ stats.key_counts = 0
                /\ stats.unknown = 0 )

C14_Witness ==
    /\ pc = "mark"
    /\ fileLen = 3
    /\ calls["insert_key_creation"] = [ok |-> 1, failed |-> 0]
    /\ calls["insert_sync_latency"] = [ok |-> 1, failed |-> 0]
    /\ calls["insert_controller_sync"] = [ok |-> 1, failed |-> 0]
    /\ stats.total_lines = 3

\* C16: a non-blank line of fewer than 5 tokens parses to None, is handed to
\* no insert, and changes no counter but total_lines, which it increments.
C16_ShortLineOnlyCounted ==
    [][ (ReadsLine /\ ~ev'.line.blank /\ ~ev'.line.ntok5)
        => ( /\ ParseLogEntry(ev'.line) = NoEntry
             /\ ev'.call = "none"
             /\ ev'.w = NoWrite
             /\ calls' = calls
             /\ connection' = connection
             /\ stats' = [stats EXCEPT !.total_lines = @ + 1] ) ]_vars

C16_Witness ==
    /\ ev.op = "line"
    /\ ev.line = ShortLine
    /\ stats.total_lines = 2
    /\ nonblank = 2

\* The family whose markers a line carries that parse_log_entry tries first.
FirstFamily(marks) ==
    IF MarkersOf("KEY_CREATION") \subseteq marks THEN "KEY_CREATION"
    ELSE IF MarkersOf("SYNC_LATENCY") \subseteq marks THEN "SYNC_LATENCY"
    ELSE IF MarkersOf("KEY_COUNT") \subseteq marks THEN "KEY_COUNT"
    ELSE IF MarkersOf("CONTROLLER_SYNC") \subseteq marks THEN "CONTROLLER_SYNC"
    ELSE "UNKNOWN"

FieldsOf(log_type) ==
    IF log_type = "UNKNOWN" THEN {} ELSE RequiredFields(log_type)

\* The entry has the first family of the line and the fields of that family
\* only.
FirstMatch(line, entry) ==
    /\ entry.log_type = FirstFamily(line.marks)
    /\ entry.log_type \in RecognizedTypes \cup { "UNKNOWN" }
    /\ entry.fields = line.fields \cap FieldsOf(entry.log_type)

\* C15, as stated: parse_log_entry gives every line of at least 5 tokens one
\* type, that of the first family in the order KeyCreation, SyncLatency,
\* KeyCount, ControllerSync, Unknown, and that family's fields only.
C15_EveryLineTyped ==
    (parsed.called /\ parsed.line.ntok5) => FirstMatch(parsed.line, parsed.entry)

\* C15, amended: the same for every line of at least 5 tokens on whose
\* matching numeric fields int() raises nothing; a line with a number of
\* more digits than int() accepts in a field of its first family yields None.
C15_FirstMatchWins ==
    (parsed.called /\ parsed.line.ntok5) =>
        IF parsed.line.intok
           \/ parsed.line.fields \cap FieldsOf(FirstFamily(parsed.line.marks))
                  \cap NumericFields = {}
        THEN FirstMatch(parsed.line, parsed.entry)
        ELSE parsed.entry = NoEntry

C15_Witness ==
    /\ parsed.called
    /\ parsed.line.marks = MarkersOf("SYNC_LATENCY") \cup MarkersOf("KEY_COUNT")
                               \cup MarkersOf("CONTROLLER_SYNC")
    /\ parsed.line.fields = AllFields
    /\ parsed.entry.log_type = "SYNC_LATENCY"
    /\ parsed.entry.fields = SyncLatencyFields

\* The step is a direct call of the given method: the call is the last one
\* made and the step is not one of the environment.
DirectCall(op) ==
    /\ ev'.op = op
    /\ << ev, parsed, remembered, args, key_creations, metrics, summaries >>'
         # << ev, parsed, remembered, args, key_creations, metrics, summaries >>

C18_RerunLeavesStore ==
    (second /\ pc = "mark") =>
        /\ key_creations = snapshot.key_creations
        /\ metrics = snapshot.metrics
        /\ summaries = snapshot.summaries

\* C18, amended: when every write of both runs was committed, the second run
\* leaves the key_creations rows and the file's summary row as the first run
\* left them, and it has inserted each sync-latency, key-count and
\* controller-sync row of the file a second time.
C18_RerunKeepsKeyedRows ==
    (second /\ pc = "mark" /\ snapshot.clean /\ RunClean) =>
        /\ key_creations = snapshot.key_creations
        /\ summaries = snapshot.summaries
        /\ metrics = snapshot.metrics (+) snapshot.metrics

C18_Witness ==
    /\ second
    /\ pc = "mark"
    /\ snapshot.clean
    /\ RunClean
    /\ key_creations # {}
    /\ BagCardinality(metrics) = 2
    /\ summaries # {}

\* C19: an insert_key_creation call leaves at most one row per key identity;
\* a committed call with an identity already present sets that row's
\* sequence number to the new value and leaves its other columns as first
\* inserted; one with a new identity adds its row; a call that is not
\* committed changes nothing.
C19_KeyCreationUpsert ==
    [][ DirectCall("insert_key_creation") =>
          LET row == args'.row
              old == { r \in key_creations : r.key_identity = row.key_identity }
          IN /\ \A r1, r2 \in key_creations' :
                  r1.key_identity = r2.key_identity => r1 = r2
             /\ key_creations' =
                  IF ~ev'.w.stored THEN key_creations
                  ELSE IF old = {} THEN key_creations \cup { row }
                  ELSE (key_creations \ old)
                         \cup { [r EXCEPT !.sequence_number = row.sequence_number] :
                                  r \in old } ]_vars

C19_Witness ==
    /\ ev.op = "insert_key_creation"
    /\ ev.w.stored
    /\ Cardinality(key_creations) = 2
    /\ \E r \in key_creations :
         /\ r.key_identity = args.row.key_identity
         /\ r.sequence_number = args.row.sequence_number
         /\ r.source_site_id # args.row.source_site_id
         /\ r.timestamp # args.row.timestamp
         /\ r.log_file # args.row.log_file

\* C20: a mark_file_processed call leaves at most one summary row per
\* filename; a committed call for a filename already present sets that row's
\* file size and total line count to the new values and leaves its per-type
\* counts as first stored; one for a new filename adds its row; a call that
\* is not committed changes nothing.
C20_SummaryUpsert ==
    [][ DirectCall("mark_file_processed") =>
          LET row == args'.row
              old == { r \in summaries : r.filename = row.filename }
          IN /\ \A r1, r2 \in summaries' : r1.filename = r2.filename => r1 = r2
             /\ summaries' =
                  IF ~ev'.w.stored THEN summaries
                  ELSE IF old = {} THEN summaries \cup { row }
                  ELSE (summaries \ old)
                         \cup { [r EXCEPT !.file_size = row.file_size,
                                          !.total_lines = row.total_lines] :
                                  r \in old } ]_vars

C20_Witness ==
    /\ ev.op = "mark_file_processed"
    /\ ev.w.stored
    /\ Cardinality(summaries) = 2
    /\ \E r \in summaries :
         /\ r.filename = args.row.filename
         /\ r.file_size = args.row.file_size
         /\ r.total_lines = args.row.total_lines
         /\ r.key_creations_count # args.row.key_creations_count
         /\ r.sync_latency_count # args.row.sync_latency_count

\* -------------------------------------------------- connection discipline
\* A DatabaseManager write was made by the last step.
WriteMade == ev.call # "none"

\* C21: every DatabaseManager write calls connect() exactly when the
\* connection is not open beforehand (never on an open one); when no
\* connection is obtained it returns False, raising nothing, with no
\* execute, commit or rollback.
C21_ReconnectBeforeWrite ==
    WriteMade =>
        /\ ev.w.connects = (IF ev.before = "open" THEN 0 ELSE 1)
        /\ ~ev.w.connected =>
             /\ ev.before # "open"
             /\ ev.w.result = FALSE
             /\ ev.w.exc = "none"
             /\ ev.w.executes = 0
             /\ ev.w.commits = 0
             /\ ev.w.rollbacks = 0
             /\ ~ev.w.stored

C21_Witness ==
    /\ ev.call = "insert_sync_latency"
    /\ ev.before = "closed"
    /\ ~ev.w.connected
    /\ ev.w.connects = 1
    /\ ev.w.result = FALSE

\* C22: a DatabaseManager write returns True exactly when its one commit
\* completed (the row is stored), calls commit at most once, calls rollback
\* once when execute or commit raised Error, and, when it returns, leaves no
\* executed statement of its own uncommitted on an open connection.
C22_WriteIsOneTransaction ==
    WriteMade =>
        /\ (ev.w.exc = "none" /\ ev.w.result) <=> ev.w.stored
        /\ ev.w.stored => (ev.w.executes = 1 /\ ev.w.commits = 1 /\ ev.w.rollbacks = 0)
        /\ ev.w.commits <= 1
        /\ (ev.w.connected /\ ev.w.error) => (ev.w.rollbacks = 1 /\ ~ev.w.stored)
        /\ ev.w.exc = "none" => ~ev.w.pending

C22_Witness ==
    /\ ev.call = "insert_key_count"
    /\ ev.w.executes = 1
    /\ ev.w.commits = 1
    /\ ev.w.rollbacks = 1
    /\ ~ev.w.stored
    /\ ev.w.exc = "none"
    /\ ev.w.result = FALSE
    /\ ev.w.conn = "open"

\* ------------------------------------------------------- the processors
\* The step is the last attempt of a connect_db call of p, and it fails:
\* connect_db returns False.
RetriesExhausted(p) ==
    /\ wpc[p] = "connect"
    /\ attempt[p] = max_retries - 1
    /\ wpc'[p] \notin { "connect", "check", "execute" }

\* C23: connect_db makes at most max_retries attempts, and when the last one
\* fails its caller goes on: the processor's loop is not ended and nothing
\* is raised.
C23_ExhaustedRetriesAreSkipped ==
    [][ \A p \in Procs :
          /\ attempt[p] < max_retries
          /\ RetriesExhausted(p) => wpc'[p] \notin { "done", "final", "raised" } ]_vars

\* C24: an exception that leaves a processor's process_data is followed by
\* the start of another cycle of that processor, unless its running flag was
\* cleared by a stop or the process has exited.
C24_ExceptionDoesNotEndLoop ==
    \A p \in Procs :
        (wpc[p] = "raised") ~> (wpc[p] = "cycle" \/ ~running[p] \/ ~Alive)

C24_Witness ==
    /\ caught["ogs"]
    /\ wpc["ogs"] = "ensure"
    /\ running["ogs"]
    /\ ~shutdown_event

\* The worker of p is inside the fetch/store sequence of a cycle: a package
\* was fetched and process_data has not returned.
InCycle(p) ==
    \/ wpc[p] \in { "ensure", "execute", "alerts" }
    \/ wpc[p] \in { "connect", "backoff" } /\ caller[p] = "insert"

\* The step is a statement of BaseProcessor.stop run by the main thread.
StopStep == Stopping /\ stopPhase' # stopPhase

\* C25: a statement of stop() that runs while a worker is inside a cycle's
\* fetch/store sequence leaves the worker where it is and leaves its
\* database connection as it is.
C25_StopWaitsForCycle ==
    [][ \A p \in Procs :
          (StopStep /\ InCycle(p)) =>
              (wpc'[p] = wpc[p] /\ db_conn'[p] = db_conn[p]) ]_vars

\* C26: once stop() has returned for every processor and the main thread
\* has left start(), no processor holds an open database connection.
C26_NoOpenConnectionAfterShutdown ==
    (shutdown_event /\ mainpc = "exited") => \A p \in Procs : db_conn[p] # "open"

\* ------------------------------------------------------------ the catalog
\* C27: in every state, between the statements of mark_as_processed and
\* after a failed append included, every filename of the in-memory set is
\* one that reading the durable list yields.
C27_MemorySubsetOfDurable ==
    processed_files \subseteq LoadProcessedFiles(durable)

\* C28: whenever no mark_as_processed call is under way in a constructed
\* downloader, the in-memory set equals what loading the durable list yields.
C28_MemoryEqualsReload ==
    pc = "direct" => processed_files = LoadProcessedFiles(durable)

\* C29: constructing the downloader raises nothing, and yields the empty set
\* when the durable list does not exist or cannot be read.
C29_LoadNeverFails ==
    ev.op = "__init__" =>
        /\ ev.exc = "none"
        /\ pc = "direct"
        /\ ev.before \in { "missing", "denied" } => processed_files = {}

WellFormed(t) == t.frac /\ t.sign \in { "+", "-" }

\* C31: an insert given a well-formed timestamp token raises no ValueError
\* and hands the statement the token's local date-time, offset removed and
\* not applied: the same value whatever the sign and size of the offset.
C31_OffsetStripped ==
    (ev.op = "insert_key_creation" /\ WellFormed(args.given)) =>
        /\ ev.exc # "ValueError"
        /\ args.row.timestamp = args.given.local
        /\ \A u \in Timestamps :
             (WellFormed(u) /\ u.local = args.given.local)
                 => ConvertTimestamp(u) = ConvertTimestamp(args.given)

\* ---------------------------------------------------------- the log server
\* The path lies under the log directory: its components begin with those
\* of the directory.
Under(path) ==
    /\ Len(path) > Len(Root)
    /\ SubSeq(path, 1, Len(Root)) = Root

FileFailed ==
    /\ ev.op = "process_log_file"
    /\ (ev.before = "read_failed" \/ ev.value = None)

\* C33: process_log_file on a file that cannot be opened or read returns
\* None, raises nothing, and has made no store call: no insert and no
\* mark_file_processed.
C33_UnreadableFileStoresNothing ==
    FileFailed =>
        /\ ev.value = None
        /\ ev.exc = "none"
        /\ storable = 0
        /\ calls = NoCalls
        /\ ev.call = "none"

\* ------------------------------------------------------ stopping a worker
\* stop() was called on processor p: its first statement, running = False,
\* has run at least once.
StopCalled(p) ==
    LET i == CHOOSE k \in 1..Len(ProcessorOrder) : ProcessorOrder[k] = p IN
    /\ shutdown_event
    /\ \/ mainpc \in { "finally", "stopped", "exited" }
       \/ stopIdx > i
       \/ stopIdx = i /\ stopPhase = "close"

\* C34: once stop() was called on a processor whose thread was started, its
\* run() returns (or the process has exited), and its loop starts no
\* processing cycle after the stop.
C34_StopEndsLoop ==
    /\ \A p \in Procs : StopCalled(p) ~> (wpc[p] = "done" \/ ~Alive)
    /\ [][ \A p \in Procs :
             StopCalled(p) => ~(wpc[p] = "check" /\ wpc'[p] = "cycle") ]_vars

\* ------------------------------------------------- one package, four inserts
\* The inserts of process_data: environment, link, summary, alerts.
PackageInserts == Len(InsertSteps) + 1

\* process_data is past its check against processed_packages.
Inserting ==
    \/ wpc["ogs"] \in { "ensure", "execute", "alerts" }
    \/ wpc["ogs"] \in { "connect", "backoff" } /\ caller["ogs"] = "insert"

\* C35: a package is added to processed_packages only when its four inserts
\* all returned true; a process_data call that began inserting leaves only
\* through insert_alerts, whatever the earlier inserts returned; and for a
\* package already in processed_packages no insert is made.
C35_PackageBookkeeping ==
    [][ /\ Package \in processed_packages' \ processed_packages
          => /\ Len(returned') = PackageInserts
             /\ \A i \in 1..PackageInserts : returned'[i]
        /\ Inserting /\ ~Inserting' => wpc["ogs"] = "alerts"
        /\ wpc["ogs"] = "alerts" => Len(returned) = Len(InsertSteps)
        /\ Package \in processed_packages
          => ~Inserting' /\ ogs_rows' = ogs_rows ]_vars

\* A package was added after its four inserts; another call got to
\* insert_alerts although an earlier insert had returned false.
C35_Witness ==
    /\ Package \in processed_packages
    /\ wpc["ogs"] = "sleep"
    /\ Len(returned) = PackageInserts

AllFourAfterFailure ==
    /\ wpc["ogs"] = "alerts"
    /\ ~returned[1]
    /\ returned[2]

\* C36: the environment row and the link row of a package are each inserted
\* at most once.
C36_RowsAtMostOnce ==
    \A t \in DOMAIN ogs_rows : ogs_rows[t] <= 1

\* ------------------------------------------------- the counters of a file
\* The counters of process_log_file other than total_lines.
OtherCounters ==
    { "key_creations", "sync_latency", "key_counts", "controller_syncs", "unknown",
      "db_errors" }

RECURSIVE SumOver(_, _)
SumOver(st, names) ==
    IF names = {} THEN 0
    ELSE LET n == CHOOSE x \in names : TRUE IN st[n] + SumOver(st, names \ { n })

\* C37: each line read adds one to total_lines and to at most one other
\* counter, and nothing when it is blank; the other counters never sum to
\* more than total_lines; a line classified UNKNOWN is handed to no insert
\* and counts no store error.
C37_CountersPerLine ==
    [][ ReadsLine =>
          /\ SumOver(stats', OtherCounters) <= stats'.total_lines
          /\ \A n \in OtherCounters : stats'[n] >= stats[n]
          /\ IF ev'.line.blank
             THEN stats' = stats
             ELSE /\ stats'.total_lines = stats.total_lines + 1
                  /\ SumOver(stats', OtherCounters) - SumOver(stats, OtherCounters)
                       \in { 0, 1 }
          /\ ParseLogEntry(ev'.line).log_type = "UNKNOWN"
               => /\ ev'.call = "none"
                  /\ calls' = calls
                  /\ stats'.db_errors = stats.db_errors ]_vars

\* An UNKNOWN line was read after a line that was stored and a line whose
\* insert returned false.
C37_Witness ==
    /\ scope = "file"
    /\ ev.op = "line"
    /\ ParseLogEntry(ev.line).log_type = "UNKNOWN"
    /\ stats.total_lines = 3
    /\ stats.db_errors = 1
    /\ SumOver(stats, OtherCounters) = 2

\* ------------------------------------------------ generated lines, parsed
\* The entry has the type of the generated line and every field the
\* insert of that type requires, with the generated value.
Carried(given, entry) ==
    /\ entry.log_type = given.kind
    /\ RequiredFields(given.kind) \subseteq entry.fields
    /\ \A f \in RequiredFields(given.kind) : entry.values[f] = given.values[f]

====
